---- MODULE Spec2Model ----
(***************************************************************************)
(* Verification model of o-murphy/a7p: the ballistic profile record, its   *)
(* two validator backends (spec_validator.py and yupy_schema.py), the      *)
(* a7p.validate entry point, the two recovery registries with the          *)
(* attempt_to_recover pipeline, and the schema engine of src/yup.          *)
(*                                                                         *)
(* Conventions                                                             *)
(*  - A path is a sequence of tokens.  A token is a record [k, i]: a key   *)
(*    token K("profile") or an index token I(3) (rendered "[3]").          *)
(*  - Strings of the record are sequences of character codes, so that the  *)
(*    slicing string[:n] is SubSeq and a length is Len.                    *)
(*  - Protobuf enum fields are the names MessageToDict prints; a number    *)
(*    outside the enum is printed as an integer and is written here as     *)
(*    its decimal string ("3").                                            *)
(***************************************************************************)
EXTENDS Integers, Sequences, FiniteSets, TLC

(***************************************************************************)
(* Bounds of the exploration                                               *)
(***************************************************************************)
\* number of fields a producer may set to non-default values in one record
MaxFaults == 3
\* number of times the recovery pipeline is run on one record
MaxRuns == 2
\* number of builder calls made on a schema before it is used
MaxCalls == 2
\* length of the longest sequence handed to an array schema
MaxItems == 2
\* files in the directory the CLI processes
MaxFiles == 7

\* __main__.py:23
MAX_THREADS == 5

(***************************************************************************)
(* Generic helpers                                                         *)
(***************************************************************************)
K(s) == [k |-> s, i |-> -1]
I(n) == [k |-> "[]", i |-> n]

RECURSIVE Concat(_)
Concat(ss) ==
    IF Len(ss) = 0 THEN <<>>
    ELSE IF Len(ss) = 1 THEN ss[1]
    ELSE LET h == Len(ss) \div 2
         IN  Concat(SubSeq(ss, 1, h)) \o Concat(SubSeq(ss, h + 1, Len(ss)))

\* the string of n characters produced by an arbitrary writer
Str(n) == [j \in 1..n |-> 1 + (j % 7)]

\* string[:n]
Slice(s, n) == IF Len(s) <= n THEN s ELSE SubSeq(s, 1, n)

(***************************************************************************)
(* factory.py : DistanceTable.LONG_RANGE, Switches, A7PFactory defaults    *)
(***************************************************************************)
LONG_RANGE ==
<<
    100, 200, 250, 300, 350, 400, 420, 440, 460, 480, 500, 520, 540, 560,
    580, 600, 610, 620, 630, 640, 650, 660, 670, 680, 690, 700, 710, 720,
    730, 740, 750, 760, 770, 780, 790, 800, 810, 820, 830, 840, 850, 860,
    870, 880, 890, 900, 910, 920, 930, 940, 950, 960, 970, 980, 990, 1000,
    1005, 1010, 1015, 1020, 1025, 1030, 1035, 1040, 1045, 1050, 1055, 1060, 1065, 1070,
    1075, 1080, 1085, 1090, 1095, 1100, 1105, 1110, 1115, 1120, 1125, 1130, 1135, 1140,
    1145, 1150, 1155, 1160, 1165, 1170, 1175, 1180, 1185, 1190, 1195, 1200, 1205, 1210,
    1215, 1220, 1225, 1230, 1235, 1240, 1245, 1250, 1255, 1260, 1265, 1270, 1275, 1280,
    1285, 1290, 1295, 1300, 1305, 1310, 1315, 1320, 1325, 1330, 1335, 1340, 1345, 1350,
    1355, 1360, 1365, 1370, 1375, 1380, 1385, 1390, 1395, 1400, 1405, 1410, 1415, 1420,
    1425, 1430, 1435, 1440, 1445, 1450, 1455, 1460, 1465, 1470, 1475, 1480, 1485, 1490,
    1495, 1500, 1505, 1510, 1515, 1520, 1525, 1530, 1535, 1540, 1545, 1550, 1555, 1560,
    1565, 1570, 1575, 1580, 1585, 1590, 1595, 1600, 1605, 1610, 1615, 1620, 1625, 1630,
    1635, 1640, 1645, 1650, 1655, 1660, 1665, 1670, 1675, 1680, 1685, 1690, 1695, 1700
>>

\* [int(d * 100) for d in LONG_RANGE]
LongRangeScaled == [j \in 1..Len(LONG_RANGE) |-> LONG_RANGE[j] * 100]

SwPos(c_idx, zoom, distance) ==
    [c_idx |-> c_idx, distance_from |-> "VALUE", distance |-> distance,
     reticle_idx |-> 0, zoom |-> zoom]

Switches == << SwPos(255, 1, 10000), SwPos(255, 2, 20000),
               SwPos(255, 3, 30000), SwPos(255, 4, 100000) >>

CoefRow(bc_cd, mv) == [bc_cd |-> bc_cd, mv |-> mv]

\* A7PFactory() with every argument at its default
A7PFactory ==
    [ profile_name |-> Str(11), cartridge_name |-> Str(13), bullet_name |-> Str(10),
      short_name_top |-> Str(6), short_name_bot |-> Str(5), caliber |-> Str(11),
      device_uuid |-> Str(0), user_note |-> Str(0),
      zero_x |-> 0, zero_y |-> 0,
      distances |-> LongRangeScaled,
      switches |-> Switches,
      sc_height |-> 90, r_twist |-> 900, twist_dir |-> "RIGHT",
      c_muzzle_velocity |-> 8000, c_zero_temperature |-> 15, c_t_coeff |-> 1500,
      c_zero_distance_idx |-> 0,
      c_zero_air_temperature |-> 15, c_zero_air_pressure |-> 10000,
      c_zero_air_humidity |-> 50, c_zero_w_pitch |-> 0, c_zero_p_temperature |-> 15,
      b_diameter |-> 308, b_weight |-> 1780, b_length |-> 1200,
      bc_type |-> "G7", coef_rows |-> << CoefRow(10000, 0) >> ]

(***************************************************************************)
(* spec_validator.py : assertion helpers.  Each returns (is_valid, reason); *)
(* the model keeps is_valid.                                               *)
(***************************************************************************)
assert_shorter_le(string, max_len) == Len(string) <= max_len

\* min_value <= value / divisor <= max_value in IEEE doubles.  The bounds
\* are written as the fractions min_num/min_den and max_num/max_den of the
\* decimal literals.  value and divisor are integers below 2^53 and the
\* division is correctly rounded, hence monotone, and two quotients with
\* the same divisor that differ differ by at least 1/divisor, far above one
\* ulp: the float comparison agrees with the exact one computed here.
assert_float_range(value, min_num, min_den, max_num, max_den, divisor) ==
    /\ min_num * divisor <= value * min_den
    /\ value * max_den <= max_num * divisor

assert_int_range(value, min_value, max_value) ==
    min_value <= value /\ value <= max_value

assert_choice(value, keys) == value \in keys

assert_items_count(items, min_count, max_count) ==
    ~ (Len(items) < min_count) /\ ~ (Len(items) > max_count)

(***************************************************************************)
(* spec_validator.py : default validation functions                       *)
(***************************************************************************)
_check_c_muzzle_velocity(x) == assert_float_range(x, 10, 1, 3000, 1, 10)
_check_c_zero_distance_idx(x) == assert_int_range(x, 0, 200)
_check_one_distance(x) == assert_float_range(x, 1, 1, 3000, 1, 100)

(***************************************************************************)
(* The generic record of a profile (a7p.to_dict / MessageToDict).  Every   *)
(* field is printed (always_print_fields_with_no_presence), in the order   *)
(* in which A7PFactory lists the fields of profedit_pb2.Profile.           *)
(***************************************************************************)
ProfileKeys ==
    << "profile_name", "cartridge_name", "bullet_name", "short_name_top",
       "short_name_bot", "user_note", "zero_x", "zero_y", "sc_height", "r_twist",
       "c_muzzle_velocity", "c_zero_temperature", "c_t_coeff", "c_zero_distance_idx",
       "c_zero_air_temperature", "c_zero_air_pressure", "c_zero_air_humidity",
       "c_zero_w_pitch", "c_zero_p_temperature", "b_diameter", "b_weight",
       "b_length", "twist_dir", "bc_type", "switches", "distances", "coef_rows",
       "caliber", "device_uuid" >>

SwPosKeys == << "c_idx", "distance_from", "distance", "reticle_idx", "zoom" >>

ProfilePath == << K("~"), K("profile") >>

\* exceptions.SpecViolation(path, value, reason); the offending value is
\* read by no code of the validators or of the recovery and is left out
SpecViolation(path, reason) == [path |-> path, reason |-> reason]

\* the keys of _default_validation_funcs that name a field of the profile
DefaultCriteriaKeys ==
    { "profile_name", "cartridge_name", "caliber", "bullet_name", "device_uuid",
      "short_name_top", "short_name_bot", "user_note", "zero_x", "zero_y",
      "sc_height", "r_twist", "c_muzzle_velocity", "c_zero_temperature",
      "c_t_coeff", "c_zero_air_temperature", "c_zero_air_pressure",
      "c_zero_air_humidity", "c_zero_p_temperature", "c_zero_w_pitch",
      "b_length", "b_weight", "b_diameter", "twist_dir" }

\* the _check_<key> function registered for each key; the bounds 0.01,
\* 6553.5 and 0.001 are the fractions 1/100, 13107/2 and 1/1000
_default_validation_funcs(key, x) ==
    CASE key = "profile_name" -> assert_shorter_le(x, 50)
      [] key = "cartridge_name" -> assert_shorter_le(x, 50)
      [] key = "caliber" -> assert_shorter_le(x, 50)
      [] key = "bullet_name" -> assert_shorter_le(x, 50)
      [] key = "device_uuid" -> assert_shorter_le(x, 50)
      [] key = "short_name_top" -> assert_shorter_le(x, 8)
      [] key = "short_name_bot" -> assert_shorter_le(x, 8)
      [] key = "user_note" -> assert_shorter_le(x, 1024)
      [] key = "zero_x" -> assert_float_range(x, -200, 1, 200, 1, 1000)
      [] key = "zero_y" -> assert_float_range(x, -200, 1, 200, 1, 1000)
      [] key = "sc_height" -> assert_float_range(x, -5000, 1, 5000, 1, 1)
      [] key = "r_twist" -> assert_float_range(x, 0, 1, 100, 1, 100)
      [] key = "c_muzzle_velocity" -> _check_c_muzzle_velocity(x)
      [] key = "c_zero_temperature" -> assert_float_range(x, -100, 1, 100, 1, 1)
      [] key = "c_t_coeff" -> assert_float_range(x, 0, 1, 5, 1, 1000)
      [] key = "c_zero_air_temperature" -> assert_float_range(x, -100, 1, 100, 1, 1)
      [] key = "c_zero_air_pressure" -> assert_float_range(x, 300, 1, 1500, 1, 10)
      [] key = "c_zero_air_humidity" -> assert_float_range(x, 0, 1, 100, 1, 1)
      [] key = "c_zero_p_temperature" -> assert_float_range(x, -100, 1, 100, 1, 1)
      [] key = "c_zero_w_pitch" -> assert_float_range(x, -90, 1, 90, 1, 10)
      [] key = "b_length" -> assert_float_range(x, 1, 100, 200, 1, 1000)
      [] key = "b_weight" -> assert_float_range(x, 1, 1, 13107, 2, 10)
      [] key = "b_diameter" -> assert_float_range(x, 1, 1000, 50, 1, 1000)
      [] key = "twist_dir" -> assert_choice(x, {"RIGHT", "LEFT"})

\* SpecCriterion.validate: one violation at path when the function fails
SpecCriterion_validate(is_valid, path, reason) ==
    IF is_valid THEN <<>> ELSE << SpecViolation(path, reason) >>

(***************************************************************************)
(* spec_validator.py : switches                                            *)
(***************************************************************************)
\* number: a distance_from that MessageToDict printed as an integer
_check_distance_from(x) ==
    IF x \in {"VALUE", "INDEX"}
    THEN TRUE
    ELSE LET number == CASE x = "2" -> 2 [] x = "150" -> 150 [] OTHER -> 3
         IN  assert_float_range(number, 1, 1, 3000, 1, 100)

_check_c_idx(idx) == IF idx = 255 THEN TRUE ELSE assert_int_range(idx, 0, 200)
_check_reticle_idx(x) == assert_int_range(x, 0, 255)
_check_zoom(x) == assert_int_range(x, 0, 6)

\* the criteria _check_switches registers, applied to one key of one switch
SwitchCriterion(key, sw, path) ==
    CASE key = "c_idx" ->
           SpecCriterion_validate(_check_c_idx(sw.c_idx), path \o <<K(key)>>, "int_range")
      [] key = "reticle_idx" ->
           SpecCriterion_validate(_check_reticle_idx(sw.reticle_idx), path \o <<K(key)>>, "int_range")
      [] key = "zoom" ->
           SpecCriterion_validate(_check_zoom(sw.zoom), path \o <<K(key)>>, "int_range")
      [] key = "distance_from" ->
           SpecCriterion_validate(_check_distance_from(sw.distance_from), path \o <<K(key)>>,
                                  "unexpected value")
      [] OTHER -> <<>>

_check_switches(switches, path) ==
    SpecCriterion_validate(Len(switches) >= 4, path, "min_items")
    \o Concat([j \in 1..Len(switches) |->
                 Concat([n \in 1..Len(SwPosKeys) |->
                           SwitchCriterion(SwPosKeys[n], switches[j], path \o <<I(j - 1)>>)])])

(***************************************************************************)
(* spec_validator.py : bc_type and coef_rows                               *)
(***************************************************************************)
_check_bc_type(x) == assert_choice(x, {"G7", "G1", "CUSTOM"})
_check_bc_value(x) == assert_float_range(x, 0, 1, 10, 1, 10000)
_check_cd_value(x) == assert_float_range(x, 0, 1, 10, 1, 10000)
_check_ma_value(x) == assert_float_range(x, 0, 1, 10, 1, 10000)
_check_mv_value(x) == assert_float_range(x, 0, 1, 3000, 1, 10)

\* the violations of one row under the criteria registered for bc_type
CoefRowViolations(bc_type, row, path) ==
    IF bc_type \in {"G7", "G1"}
    THEN SpecCriterion_validate(_check_bc_value(row.bc_cd), path \o <<K("bc_cd")>>, "float_range")
         \o SpecCriterion_validate(_check_mv_value(row.mv), path \o <<K("mv")>>, "float_range")
    ELSE SpecCriterion_validate(_check_cd_value(row.bc_cd), path \o <<K("bc_cd")>>, "float_range")
         \o SpecCriterion_validate(_check_ma_value(row.mv), path \o <<K("mv")>>, "float_range")

\* the list coef_rows_violations before the cap is applied
CoefRowsCollected(profile, path) ==
    IF ~ _check_bc_type(profile.bc_type)
    THEN << SpecViolation(path, "expected one of") >>
    ELSE Concat([j \in 1..Len(profile.coef_rows) |->
                   CoefRowViolations(profile.bc_type, profile.coef_rows[j],
                                     path \o <<K("coef_rows"), I(j - 1)>>)])
         \o SpecCriterion_validate(
              assert_items_count(profile.coef_rows, 1,
                                 IF profile.bc_type \in {"G7", "G1"} THEN 5 ELSE 200),
              path \o <<K("coef_rows")>>, "items_count")

_check_coef_rows(profile, path) ==
    LET coef_rows_violations == CoefRowsCollected(profile, path)
    IN  IF Len(coef_rows_violations) <= 12
        THEN coef_rows_violations
        ELSE << SpecViolation(path \o <<K("coef_rows")>>, "More than 12 errors found") >>

(***************************************************************************)
(* spec_validator.py : distances and c_zero_distance_idx                   *)
(***************************************************************************)
_check_dependency_distances(zero_distance_index, distances) ==
    0 <= zero_distance_index /\ zero_distance_index < Len(distances)

\* the dependency violation is created with the plain string "Distances"
\* as its path, not with a pathlib.Path under the profile
DistancesStrPath == << K("Distances") >>

DistancesCollected(profile, path) ==
    SpecCriterion_validate(_check_c_zero_distance_idx(profile.c_zero_distance_idx),
                           path \o <<K("c_zero_distance_idx")>>, "int_range")
    \o (IF _check_dependency_distances(profile.c_zero_distance_idx, profile.distances)
        THEN <<>>
        ELSE << SpecViolation(DistancesStrPath, "zero distance index > len(distances)") >>)
    \o SpecCriterion_validate(assert_items_count(profile.distances, 1, 200),
                              path \o <<K("distances")>>, "items_count")
    \o Concat([j \in 1..Len(profile.distances) |->
                 SpecCriterion_validate(_check_one_distance(profile.distances[j]),
                                        path \o <<K("distances"), I(j - 1)>>, "float_range")])

_check_distances(profile, path) ==
    LET distances_violations == DistancesCollected(profile, path)
    IN  IF Len(distances_violations) <= 11
        THEN distances_violations
        ELSE << SpecViolation(path \o <<K("distances")>>, "More than 10 errors found") >>

(***************************************************************************)
(* spec_validator.py : the profile and the default validator               *)
(***************************************************************************)
_check_profile(profile, path) ==
    _check_switches(profile.switches, path \o <<K("switches")>>)
    \o _check_distances(profile, path)
    \o _check_coef_rows(profile, path)

\* _default_validator.validate(data): the fields of the profile in the
\* order of the record, then the criterion registered for "~/profile"
SpecValidator_validate(profile) ==
    Concat([n \in 1..Len(ProfileKeys) |->
              IF ProfileKeys[n] \in DefaultCriteriaKeys
              THEN SpecCriterion_validate(
                     _default_validation_funcs(ProfileKeys[n], profile[ProfileKeys[n]]),
                     ProfilePath \o <<K(ProfileKeys[n])>>, "default")
              ELSE <<>>])
    \o _check_profile(profile, ProfilePath)

\* validate_spec raises A7PSpecValidationError(violations) iff the list is
\* not empty; the model returns the list
validate_spec(payload) == SpecValidator_validate(payload)

(***************************************************************************)
(* yupy_schema.py : the schema of the default backend.  A test of the      *)
(* schema library is modelled by the condition under which it raises       *)
(* (number_schema.py, _iterable_schema.py, mixed_schema.py).               *)
(***************************************************************************)
YupyViolation(path, constraint) == [path |-> path, constraint |-> constraint]

\* NumberSchema.ge / NumberSchema.le: the test raises iff the result is TRUE
ge(x, limit) == x < limit
le(x, limit) == x > limit
\* NumberSchema.multiple_of; % on integers with a positive multiplier is
\* Python's
multiple_of(x, multiplier) == x % multiplier # 0
\* _IterableSchema.min / _IterableSchema.max on the length of the value
min(x, limit) == Len(x) < limit
max(x, limit) == Len(x) > limit
\* Mixed.one_of
one_of(x, items) == x \notin items

\* number().ge(lo).le(hi).integer() on an integer: the tests in order
YupyNumber(x, lo, hi, path) ==
    IF ge(x, lo) THEN << YupyViolation(path, "ge") >>
    ELSE IF le(x, hi) THEN << YupyViolation(path, "le") >>
    ELSE <<>>

\* string().max(limit)
YupyString(x, limit, path) ==
    IF max(x, limit) THEN << YupyViolation(path, "max") >> ELSE <<>>

\* mixed().one_of(items)
YupyMixed(x, items, path) ==
    IF one_of(x, items) THEN << YupyViolation(path, "one_of") >> ELSE <<>>

\* the two alternatives of the union of a switch record
YupySwitchValue(sw, path) ==
    YupyNumber(sw.c_idx, 0, 255, path \o <<K("c_idx")>>)
    \o YupyMixed(sw.distance_from, {"VALUE"}, path \o <<K("distance_from")>>)
    \o YupyNumber(sw.distance, 100, 300000, path \o <<K("distance")>>)
    \o YupyNumber(sw.reticle_idx, 0, 255, path \o <<K("reticle_idx")>>)
    \o YupyNumber(sw.zoom, 0, 255, path \o <<K("zoom")>>)

YupySwitchIndex(sw, path) ==
    YupyNumber(sw.c_idx, 0, 255, path \o <<K("c_idx")>>)
    \o YupyMixed(sw.distance_from, {"INDEX"}, path \o <<K("distance_from")>>)
    \o YupyNumber(sw.distance, 0, 255, path \o <<K("distance")>>)
    \o YupyNumber(sw.reticle_idx, 0, 255, path \o <<K("reticle_idx")>>)
    \o YupyNumber(sw.zoom, 0, 255, path \o <<K("zoom")>>)

\* union().one_of((value shape, index shape)): valid iff one alternative accepts
YupySwitch(sw, path) ==
    IF YupySwitchValue(sw, path) = <<>> \/ YupySwitchIndex(sw, path) = <<>>
    THEN <<>>
    ELSE << YupyViolation(path, "union") >>

\* the declaration order of the fields of "profile" in _schema
YupyKeys ==
    << "profile_name", "cartridge_name", "bullet_name", "short_name_top",
       "short_name_bot", "caliber", "device_uuid", "user_note", "zero_x", "zero_y",
       "distances", "switches", "sc_height", "r_twist", "twist_dir",
       "c_muzzle_velocity", "c_zero_temperature", "c_t_coeff", "c_zero_distance_idx",
       "c_zero_air_temperature", "c_zero_air_pressure", "c_zero_air_humidity",
       "c_zero_w_pitch", "c_zero_p_temperature", "b_diameter", "b_weight",
       "b_length", "bc_type", "coef_rows" >>

\* _schema: the violations of one declared field of the profile
_schema_field(key, profile, path) ==
    CASE key \in {"profile_name", "cartridge_name", "bullet_name", "caliber", "device_uuid"} ->
           YupyString(profile[key], 50, path)
      [] key \in {"short_name_top", "short_name_bot"} -> YupyString(profile[key], 8, path)
      [] key = "user_note" -> YupyString(profile[key], 1024, path)
      [] key \in {"zero_x", "zero_y"} -> YupyNumber(profile[key], -200000, 200000, path)
      [] key = "distances" ->
           (IF min(profile.distances, 1) THEN << YupyViolation(path, "min") >>
            ELSE IF max(profile.distances, 200) THEN << YupyViolation(path, "max") >>
            ELSE <<>>)
           \o Concat([j \in 1..Len(profile.distances) |->
                        YupyNumber(profile.distances[j], 100, 300000, path \o <<I(j - 1)>>)])
      [] key = "switches" ->
           (IF min(profile.switches, 4) THEN << YupyViolation(path, "min") >> ELSE <<>>)
           \o Concat([j \in 1..Len(profile.switches) |->
                        YupySwitch(profile.switches[j], path \o <<I(j - 1)>>)])
      [] key = "sc_height" -> YupyNumber(profile[key], -5000, 5000, path)
      [] key = "r_twist" -> YupyNumber(profile[key], 0, 10000, path)
      [] key = "twist_dir" -> YupyMixed(profile[key], {"RIGHT", "LEFT"}, path)
      [] key = "c_muzzle_velocity" -> YupyNumber(profile[key], 100, 30000, path)
      [] key = "c_zero_temperature" -> YupyNumber(profile[key], -100, 100, path)
      [] key = "c_t_coeff" -> YupyNumber(profile[key], 0, 5000, path)
      [] key = "c_zero_distance_idx" -> YupyNumber(profile[key], 0, 255, path)
      [] key = "c_zero_air_temperature" -> YupyNumber(profile[key], -100, 100, path)
      [] key = "c_zero_air_pressure" -> YupyNumber(profile[key], 3000, 15000, path)
      [] key = "c_zero_air_humidity" -> YupyNumber(profile[key], 0, 100, path)
      [] key = "c_zero_w_pitch" -> YupyNumber(profile[key], -90, 90, path)
      [] key = "c_zero_p_temperature" -> YupyNumber(profile[key], -100, 100, path)
      [] key = "b_diameter" -> YupyNumber(profile[key], 1, 50000, path)
      [] key = "b_weight" -> YupyNumber(profile[key], 10, 65535, path)
      [] key = "b_length" -> YupyNumber(profile[key], 1, 200000, path)
      [] key = "bc_type" -> YupyMixed(profile[key], {"G1", "G7", "CUSTOM"}, path)
      [] key = "coef_rows" ->
           (IF min(profile.coef_rows, 1) THEN << YupyViolation(path, "min") >>
            ELSE IF max(profile.coef_rows, 200) THEN << YupyViolation(path, "max") >>
            ELSE <<>>)

\* _schema.validate(data, fail_fast, "~"): the leaf violations, in
\* declaration order
_schema(profile) ==
    Concat([n \in 1..Len(YupyKeys) |->
              _schema_field(YupyKeys[n], profile, ProfilePath \o <<K(YupyKeys[n])>>)])

\* _coef_rows_mv_validator raises iff the result is TRUE
_coef_rows_mv_validator(rows) ==
    \/ rows = <<>>
    \/ \E a, b \in 1..Len(rows) : a # b /\ rows[a].mv # 0 /\ rows[a].mv = rows[b].mv

CoefRowsPath == << K("~"), K("profile"), K("coef_rows") >>

\* array().of(mapping {bc_cd, mv}).min(1).max(max_items).test(_coef_rows_mv_validator)
YupyCoefRows(rows, bc_cd_max, mv_max, max_items) ==
    (IF min(rows, 1) THEN << YupyViolation(CoefRowsPath, "min") >>
     ELSE IF max(rows, max_items) THEN << YupyViolation(CoefRowsPath, "max") >>
     ELSE IF _coef_rows_mv_validator(rows) THEN << YupyViolation(CoefRowsPath, "unique_mv") >>
     ELSE <<>>)
    \o Concat([j \in 1..Len(rows) |->
                 YupyNumber(rows[j].bc_cd, 0, bc_cd_max, CoefRowsPath \o <<I(j - 1), K("bc_cd")>>)
                 \o YupyNumber(rows[j].mv, 0, mv_max, CoefRowsPath \o <<I(j - 1), K("mv")>>)])

_coef_rows_std_schema(rows) == YupyCoefRows(rows, 10000, 30000, 5)
\* the CUSTOM schema with the standard maximum of 5 rows
Mutant_coef_rows_custom_schema(rows) == YupyCoefRows(rows, 10000, 10000, 5)
_coef_rows_custom_schema(rows) == YupyCoefRows(rows, 10000, 10000, 200)

validate_coef_rows(profile) ==
    CASE profile.bc_type \in {"G1", "G7"} -> _coef_rows_std_schema(profile.coef_rows)
      [] profile.bc_type = "CUSTOM" -> _coef_rows_custom_schema(profile.coef_rows)
      [] OTHER -> <<>>

\* yupy_schema.validate(payload, fail_fast): the violations carried by the
\* ValidationError it raises, <<>> when it returns normally
validate_yupy(payload, fail_fast) ==
    LET errors == _schema(payload) \o validate_coef_rows(payload)
    IN  IF fail_fast /\ errors # <<>> THEN << Head(errors) >> ELSE errors

(***************************************************************************)
(* a7p.py : validate and the backend flags                                 *)
(***************************************************************************)
\* a7p.validate(payload, fail_fast) under the flags USE_SPEC_VALIDATOR and
\* USE_YUPY_VALIDATOR (USE_PROTOVALIDATE stays False: protovalidate is a
\* deprecated external backend).  The result names what the call raises:
\*  - "A7PSpecValidationError": re-raised from validate_spec under fail_fast;
\*  - "TypeError": the final raise passes yupy_violations= to
\*    A7PValidationError.__init__, which has no such parameter;
\*  - "none": the call returns.
\* yupy_violations is the list built from error.errors before the raise;
\* validate_yupy is called without fail_fast.
validate(payload, fail_fast, use_spec, use_yupy) ==
    LET spec_violations == IF use_spec THEN validate_spec(payload) ELSE <<>>
        yupy_violations == IF use_yupy THEN validate_yupy(payload, FALSE) ELSE <<>>
    IN  IF use_spec /\ spec_violations # <<>> /\ fail_fast
        THEN [raised |-> "A7PSpecValidationError", spec_violations |-> spec_violations,
              proto_violations |-> <<>>, yupy_violations |-> <<>>]
        ELSE IF spec_violations # <<>> \/ yupy_violations # <<>>
        THEN [raised |-> "TypeError", spec_violations |-> spec_violations,
              proto_violations |-> <<>>, yupy_violations |-> yupy_violations]
        ELSE [raised |-> "none", spec_violations |-> <<>>,
              proto_violations |-> <<>>, yupy_violations |-> <<>>]

(***************************************************************************)
(* recover/recover.py : the fix functions of the spec tier.  A fix returns *)
(* the record it leaves behind and the exception it raises ("none").       *)
(***************************************************************************)
Fixed(payload) == [p |-> payload, exc |-> "none"]

fix_str_len_type(string, expected_len) == Slice(string, expected_len)

\* the fix with a default ten times too large
Mutant_recover_spec_c_muzzle_velocity(payload) ==
    Fixed([payload EXCEPT !.c_muzzle_velocity = 80000])
_recover_spec_c_muzzle_velocity(payload) == Fixed([payload EXCEPT !.c_muzzle_velocity = 8000])
\* assigns c_zero_air_pressure, not c_zero_air_humidity
_recover_spec_c_zero_air_humidity(payload) == Fixed([payload EXCEPT !.c_zero_air_pressure = 0])
\* payload.twist_dir / payload.bc_type: the Payload message has no such
\* field (they are fields of payload.profile) and a protobuf message
\* refuses the assignment
_recover_spec_twist_dir(payload) == [p |-> payload, exc |-> "AttributeError"]
_recover_spec_bc_type(payload) == [p |-> payload, exc |-> "AttributeError"]
\* del coef_rows[:] runs, then extend() is given one CoefRow message
\* instead of an iterable of messages and raises
_recover_spec_coef_rows(payload) ==
    [p |-> [payload EXCEPT !.coef_rows = <<>>], exc |-> "TypeError"]

\* recover_spec.recover_funcs as the set of registered paths
recover_spec_paths ==
    { ProfilePath \o <<K(key)>> :
        key \in
        { "profile_name", "cartridge_name", "bullet_name",
          "user_note", "device_uuid", "short_name_top",
          "short_name_bot", "zero_x", "zero_y", "sc_height",
          "r_twist", "c_muzzle_velocity", "c_zero_temperature",
          "c_t_coeff", "c_zero_distance_idx",
          "c_zero_air_temperature", "c_zero_air_pressure",
          "c_zero_air_humidity", "c_zero_w_pitch",
          "c_zero_p_temperature", "b_diameter", "b_weight",
          "b_length", "twist_dir", "bc_type", "distances", "switches",
          "coef_rows" } }

\* recover_spec.recover_funcs[path](payload)
recover_spec_funcs(key, payload) ==
    CASE key = "profile_name" -> Fixed([payload EXCEPT !.profile_name = fix_str_len_type(@, 49)])
      [] key = "cartridge_name" -> Fixed([payload EXCEPT !.cartridge_name = fix_str_len_type(@, 49)])
      [] key = "bullet_name" -> Fixed([payload EXCEPT !.bullet_name = fix_str_len_type(@, 49)])
      [] key = "user_note" -> Fixed([payload EXCEPT !.user_note = fix_str_len_type(@, 1023)])
      [] key = "device_uuid" -> Fixed([payload EXCEPT !.device_uuid = fix_str_len_type(@, 49)])
      [] key = "short_name_top" -> Fixed([payload EXCEPT !.short_name_top = fix_str_len_type(@, 7)])
      [] key = "short_name_bot" -> Fixed([payload EXCEPT !.short_name_bot = fix_str_len_type(@, 7)])
      [] key = "zero_x" -> Fixed([payload EXCEPT !.zero_x = 0])
      [] key = "zero_y" -> Fixed([payload EXCEPT !.zero_y = 0])
      [] key = "sc_height" -> Fixed([payload EXCEPT !.sc_height = 90])
      [] key = "r_twist" -> Fixed([payload EXCEPT !.r_twist = 10])
      [] key = "c_muzzle_velocity" -> _recover_spec_c_muzzle_velocity(payload)
      [] key = "c_zero_temperature" -> Fixed([payload EXCEPT !.c_zero_temperature = 15])
      [] key = "c_t_coeff" -> Fixed([payload EXCEPT !.c_t_coeff = 1000])
      [] key = "c_zero_distance_idx" -> Fixed([payload EXCEPT !.c_zero_distance_idx = 0])
      [] key = "c_zero_air_temperature" -> Fixed([payload EXCEPT !.c_zero_air_temperature = 15])
      [] key = "c_zero_air_pressure" -> Fixed([payload EXCEPT !.c_zero_air_pressure = 10000])
      [] key = "c_zero_air_humidity" -> _recover_spec_c_zero_air_humidity(payload)
      [] key = "c_zero_w_pitch" -> Fixed([payload EXCEPT !.c_zero_w_pitch = 0])
      [] key = "c_zero_p_temperature" -> Fixed([payload EXCEPT !.c_zero_p_temperature = 15])
      [] key = "b_diameter" -> Fixed([payload EXCEPT !.b_diameter = 338])
      [] key = "b_weight" -> Fixed([payload EXCEPT !.b_weight = 3000])
      [] key = "b_length" -> Fixed([payload EXCEPT !.b_length = 1700])
      [] key = "twist_dir" -> _recover_spec_twist_dir(payload)
      [] key = "bc_type" -> _recover_spec_bc_type(payload)
      [] key = "distances" -> Fixed([payload EXCEPT !.distances = LongRangeScaled])
      [] key = "switches" -> Fixed([payload EXCEPT !.switches = Switches])
      [] key = "coef_rows" -> _recover_spec_coef_rows(payload)

(***************************************************************************)
(* recover/recover.py : the proto tier                                     *)
(***************************************************************************)
\* recover_proto.recover_funcs as the set of registered paths
recover_proto_paths ==
    { <<K("profile"), K(key)>> :
        key \in
        { "profile_name", "cartridge_name", "bullet_name",
          "user_note", "short_name_top", "short_name_bot", "zero_x",
          "zero_y", "sc_height", "r_twist", "c_muzzle_velocity",
          "c_zero_temperature", "c_t_coeff", "c_zero_distance_idx",
          "c_zero_air_temperature", "c_zero_air_pressure",
          "c_zero_air_humidity", "c_zero_w_pitch",
          "c_zero_p_temperature", "b_diameter", "b_weight",
          "b_length", "twist_dir", "bc_type", "switches", "distances",
          "coef_rows", "caliber", "device_uuid" } }

\* recover_proto.recover_funcs[path](payload); "profile.profile_name" is
\* registered with _recover_proto_short_name_top
recover_proto_funcs(key, payload) ==
    CASE key = "profile_name" -> Fixed([payload EXCEPT !.short_name_top = fix_str_len_type(@, 8)])
      [] key = "cartridge_name" -> Fixed([payload EXCEPT !.cartridge_name = fix_str_len_type(@, 50)])
      [] key = "bullet_name" -> Fixed([payload EXCEPT !.bullet_name = fix_str_len_type(@, 50)])
      [] key = "user_note" -> Fixed([payload EXCEPT !.user_note = fix_str_len_type(@, 250)])
      [] key = "short_name_top" -> Fixed([payload EXCEPT !.short_name_top = fix_str_len_type(@, 8)])
      [] key = "short_name_bot" -> Fixed([payload EXCEPT !.short_name_bot = fix_str_len_type(@, 8)])
      [] key = "zero_x" -> Fixed([payload EXCEPT !.zero_x = 0])
      [] key = "zero_y" -> Fixed([payload EXCEPT !.zero_y = 0])
      [] key = "sc_height" -> Fixed([payload EXCEPT !.sc_height = 90])
      [] key = "r_twist" -> Fixed([payload EXCEPT !.r_twist = 10])
      [] key = "c_muzzle_velocity" -> Fixed([payload EXCEPT !.c_muzzle_velocity = 8000])
      [] key = "c_zero_temperature" -> Fixed([payload EXCEPT !.c_zero_temperature = 15])
      [] key = "c_t_coeff" -> Fixed([payload EXCEPT !.c_t_coeff = 1000])
      [] key = "c_zero_distance_idx" -> Fixed([payload EXCEPT !.c_zero_distance_idx = 0])
      [] key = "c_zero_air_temperature" -> Fixed([payload EXCEPT !.c_zero_air_temperature = 15])
      [] key = "c_zero_air_pressure" -> Fixed([payload EXCEPT !.c_zero_air_pressure = 10000])
      [] key = "c_zero_air_humidity" -> Fixed([payload EXCEPT !.c_zero_air_pressure = 0])
      [] key = "c_zero_w_pitch" -> Fixed([payload EXCEPT !.c_zero_w_pitch = 0])
      [] key = "c_zero_p_temperature" -> Fixed([payload EXCEPT !.c_zero_p_temperature = 15])
      [] key = "b_diameter" -> Fixed([payload EXCEPT !.b_diameter = 338])
      [] key = "b_weight" -> Fixed([payload EXCEPT !.b_weight = 3000])
      [] key = "b_length" -> Fixed([payload EXCEPT !.b_length = 1700])
      [] key = "twist_dir" -> [p |-> payload, exc |-> "AttributeError"]
      [] key = "bc_type" -> [p |-> payload, exc |-> "AttributeError"]
      [] key = "switches" -> Fixed([payload EXCEPT !.switches = Switches])
      [] key = "distances" -> Fixed([payload EXCEPT !.distances = LongRangeScaled])
      [] key = "coef_rows" -> [p |-> [payload EXCEPT !.coef_rows = <<>>], exc |-> "TypeError"]
      [] key = "caliber" -> Fixed([payload EXCEPT !.caliber = fix_str_len_type(@, 50)])
      [] key = "device_uuid" -> Fixed([payload EXCEPT !.device_uuid = fix_str_len_type(@, 50)])

(***************************************************************************)
(* recover/recover.py : Recover.  tier is "spec" (recover_spec) or "proto" *)
(* (recover_proto).                                                        *)
(***************************************************************************)
RecoverResult(recovered, path, old_value, new_value) ==
    [recovered |-> recovered, path |-> path, old_value |-> old_value, new_value |-> new_value]

\* violation.path in self.recover_funcs
Registered(tier, path) ==
    IF tier = "spec" THEN path \in recover_spec_paths ELSE path \in recover_proto_paths

\* get_value_by_violation for a registered path: split_path gives
\* ["profile", key] in both tiers and the getattr walk ends at
\* payload.profile.<key>
get_value_by_violation(payload, path) == payload[path[Len(path)].k]

\* self.recover_funcs[violation.path](payload)
ApplyFix(tier, path, payload) ==
    IF tier = "spec"
    THEN recover_spec_funcs(path[Len(path)].k, payload)
    ELSE recover_proto_funcs(path[Len(path)].k, payload)

\* Recover.recover_one: the record left behind, the result (when no
\* exception is raised) and the exception
recover_one(tier, payload, violation) ==
    IF Registered(tier, violation.path)
    THEN LET old_value == get_value_by_violation(payload, violation.path)
             fix == ApplyFix(tier, violation.path, payload)
             new_value == get_value_by_violation(fix.p, violation.path)
         IN  [p |-> fix.p, exc |-> fix.exc,
              result |-> RecoverResult(TRUE, violation.path, old_value, new_value)]
    ELSE [p |-> payload, exc |-> "none",
          result |-> RecoverResult(FALSE, violation.path, "None", "None")]

\* the loop of Recover.recover from the results gathered so far; an
\* exception raised by a fix leaves the loop and the results are lost
RECURSIVE RecoverLoop(_, _, _, _)
RecoverLoop(tier, payload, violations, results) ==
    IF violations = <<>>
    THEN [p |-> payload, exc |-> "none", results |-> results]
    ELSE LET one == recover_one(tier, payload, Head(violations))
         IN  IF one.exc # "none"
             THEN [p |-> one.p, exc |-> one.exc, results |-> <<>>]
             ELSE RecoverLoop(tier, one.p, Tail(violations), Append(results, one.result))

recover(tier, payload, violations) == RecoverLoop(tier, payload, violations, <<>>)

(***************************************************************************)
(* recover/recover.py : the registry of a Recover object as a value.       *)
(* recover_funcs maps each path of RegistryPaths to the name of the fix    *)
(* registered under it, "none" when the dict has no such key.              *)
(***************************************************************************)
\* keys a caller can register a fix under and paths a violation can carry:
\* a bare field name, the path of the field in the profile, the same field
\* one level up, and the path of a second field
RegistryPaths ==
    { << K("c_muzzle_velocity") >>,
      ProfilePath \o << K("c_muzzle_velocity") >>,
      << K("~"), K("c_muzzle_velocity") >>,
      ProfilePath \o << K("zero_x") >> }

\* recover_spec.recover_funcs once recover.py is imported (lines 419-448)
ShippedFuncs ==
    [path \in RegistryPaths |->
        CASE path = ProfilePath \o << K("c_muzzle_velocity") >> -> "_recover_spec_c_muzzle_velocity"
          [] path = ProfilePath \o << K("zero_x") >> -> "_recover_spec_zero_x"
          [] OTHER -> "none"]

\* RecoverSpec.register / RecoverProto.register: self.recover_funcs[path] = func
register(funcs, path, func) == [funcs EXCEPT ![path] = func]

\* Recover.recover_one on a registry value: the fix it calls and the
\* recovered flag of the result it returns
Recover_lookup(funcs, path) ==
    IF funcs[path] # "none"
    THEN [recovered |-> TRUE, path |-> path, func |-> funcs[path]]
    ELSE [recovered |-> FALSE, path |-> path, func |-> "none"]

(***************************************************************************)
(* src/yup : the schema engine.  A generic value is a record: kind, the    *)
(* number n of a bool (0, 1) or of a number, the characters of a string,   *)
(* the keys of a mapping and the items of a mapping (items[j] is the value *)
(* at keys[j]) or of a sequence.                                           *)
(***************************************************************************)
Value(kind, n, chars, keys, items) ==
    [kind |-> kind, n |-> n, chars |-> chars, keys |-> keys, items |-> items]

Null == Value("null", 0, <<>>, <<>>, <<>>)
Bool(b) == Value("bool", b, <<>>, <<>>, <<>>)
Number(n) == Value("number", n, <<>>, <<>>, <<>>)
String(len) == Value("string", 0, Str(len), <<>>, <<>>)
Mapping(keys, items) == Value("mapping", 0, <<>>, keys, items)
Sequence(items) == Value("sequence", 0, <<>>, <<>>, items)

\* isinstance(value, type_) for the _type of each schema class; bool is a
\* subclass of int
isinstance(value, type_) ==
    CASE type_ = "number" -> value.kind \in {"number", "bool"}
      [] type_ = "string" -> value.kind = "string"
      [] type_ = "mapping" -> value.kind = "mapping"
      [] type_ = "array" -> value.kind = "sequence"
      [] OTHER -> FALSE

\* k in value, value[k] for a dict
HasKey(value, k) == \E j \in DOMAIN value.keys : value.keys[j] = k
ValueAt(value, k) == value.items[CHOOSE j \in DOMAIN value.keys : value.keys[j] = k]

\* what len(x) measures
Sized(value) == IF value.kind = "string" THEN value.chars ELSE value.items

\* A schema object: _type, _optional, _nullability, _validators (each a
\* test name and its limit), and for a mapping _fields (keys in insertion
\* order with their schemas), for an array _type_of.
Schema(type_) ==
    [type |-> type_, optional |-> TRUE, nullability |-> FALSE, validators |-> <<>>,
     keys |-> <<>>, fields |-> <<>>, type_of |-> <<>>]

\* Schema.test: append a validator
test(s, name, limit) ==
    [s EXCEPT !.validators = Append(@, [name |-> name, limit |-> limit])]

required(s) == [s EXCEPT !.optional = FALSE]
\* not_required that leaves the mark of required() in place
Mutant_not_required(s) == s
not_required(s) == [s EXCEPT !.optional = TRUE]
nullable(s) == [s EXCEPT !.nullability = TRUE]
not_nullable(s) == [s EXCEPT !.nullability = FALSE]

\* ObjSchema.shape, ArraySchema.of
shape(s, keys, fields) == [s EXCEPT !.keys = keys, !.fields = fields]
of(s, schema_) == [s EXCEPT !.type_of = << schema_ >>]

\* util/concat_path.py: "a.b" for a key, "a[0]" for an index; the model
\* keeps the tokens the string is made of
concat_path(path, item) == path \o << item >>

\* ValidationError(constraint, path, errors)
ValidationError(constraint, path, errors) ==
    [constraint |-> constraint, path |-> path, errors |-> errors]

NoError == ValidationError("none", <<>>, <<>>)

\* ValidationError.errors: the generator yields the error itself, then the
\* errors of each child in turn
RECURSIVE ValidationError_errors(_)
ValidationError_errors(err) ==
    << err >> \o Concat([j \in DOMAIN err.errors |-> ValidationError_errors(err.errors[j])])

\* the outcome of a validate call: it returns ("ok") or raises a
\* ValidationError or a TypeError; tests_run counts the validators of the
\* schema that were called on the value
Returns(tests_run) == [outcome |-> "ok", error |-> NoError, tests_run |-> tests_run]
Raises(error, tests_run) ==
    [outcome |-> "ValidationError", error |-> error, tests_run |-> tests_run]
RaisesTypeError == [outcome |-> "TypeError", error |-> NoError, tests_run |-> 0]

\* a validator raises iff the result is TRUE
TestFails(validator, value) ==
    CASE validator.name = "ge" -> ge(value.n, validator.limit)
      [] validator.name = "le" -> le(value.n, validator.limit)
      [] validator.name = "multiple_of" -> multiple_of(value.n, validator.limit)
      [] validator.name = "min" -> min(Sized(value), validator.limit)
      [] validator.name = "max" -> max(Sized(value), validator.limit)

\* Schema.validate: _nullable_check for None, then _type_check, then the
\* validators in registration order; the first ValidationError is re-raised
\* with the path
Schema_validate(s, value, path) ==
    IF value.kind = "null"
    THEN IF ~ s.nullability
         THEN Raises(ValidationError("nullable", path, <<>>), 0)
         ELSE Returns(0)
    ELSE IF s.type # "any" /\ ~ isinstance(value, s.type)
    THEN Raises(ValidationError("type", path, <<>>), 0)
    ELSE LET failing == { j \in DOMAIN s.validators : TestFails(s.validators[j], value) }
         IN  IF failing = {}
             THEN Returns(Len(s.validators))
             ELSE LET first == CHOOSE j \in failing : \A m \in failing : j <= m
                  IN  Raises(ValidationError(s.validators[first].name, path, <<>>), first)

\* the loop of _validate_shape and of _validate_array over the outcomes of
\* the children, in order: a TypeError leaves the loop as it is, a
\* ValidationError is re-raised at the child's path when abort_early and
\* collected otherwise; the collected errors are raised under one parent
Gather(outcomes, paths, abort_early, path, tests_run) ==
    LET stops == { j \in DOMAIN outcomes :
                     \/ outcomes[j].outcome = "TypeError"
                     \/ outcomes[j].outcome = "ValidationError" /\ abort_early }
        errs == SelectSeq(outcomes, LAMBDA o : o.outcome = "ValidationError")
    IN  IF stops # {}
        THEN LET first == CHOOSE j \in stops : \A m \in stops : j <= m
             IN  IF outcomes[first].outcome = "TypeError"
                 THEN RaisesTypeError
                 ELSE Raises(ValidationError(outcomes[first].error.constraint,
                                             paths[first], <<>>), tests_run)
        ELSE IF errs # <<>>
        THEN Raises(ValidationError("array", path,
                                    [j \in DOMAIN errs |-> errs[j].error]), tests_run)
        ELSE Returns(tests_run)

RECURSIVE validate_any(_, _, _, _)
RECURSIVE _validate_shape(_, _, _, _, _)
RECURSIVE _validate_array(_, _, _, _, _)

\* ObjSchema._validate_shape; on None both `k in value` raise TypeError
_validate_shape(s, value, abort_early, path, tests_run) ==
    IF s.keys = <<>> THEN Returns(tests_run)
    ELSE IF value.kind = "null" THEN RaisesTypeError
    ELSE LET paths == [j \in DOMAIN s.keys |-> concat_path(path, K(s.keys[j]))]
             outcomes ==
                 [j \in DOMAIN s.keys |->
                    IF ~ s.fields[j].optional /\ ~ HasKey(value, s.keys[j])
                    THEN Raises(ValidationError("required", paths[j], <<>>), 0)
                    ELSE IF HasKey(value, s.keys[j])
                    THEN validate_any(s.fields[j], ValueAt(value, s.keys[j]),
                                      abort_early, paths[j])
                    ELSE Returns(0)]
         IN  Gather(outcomes, paths, abort_early, path, tests_run)

\* ArraySchema._validate_array; enumerate(None) raises TypeError
_validate_array(s, value, abort_early, path, tests_run) ==
    IF value.kind = "null" THEN RaisesTypeError
    ELSE LET paths == [j \in DOMAIN value.items |-> concat_path(path, I(j - 1))]
             outcomes ==
                 [j \in DOMAIN value.items |->
                    validate_any(s.type_of[1], value.items[j], abort_early, paths[j])]
         IN  Gather(outcomes, paths, abort_early, path, tests_run)

\* schema.validate(value, abort_early, path) for the class of the schema:
\* ObjSchema.validate and ArraySchema.validate call Schema.validate first
validate_any(s, value, abort_early, path) ==
    LET base == Schema_validate(s, value, path)
    IN  IF base.outcome # "ok" THEN base
        ELSE CASE s.type = "mapping" ->
                    _validate_shape(s, value, abort_early, path, base.tests_run)
               [] s.type = "array" ->
                    _validate_array(s, value, abort_early, path, base.tests_run)
               [] OTHER -> base

\* the schema classes as constructed: number(), string(), obj(), array()
NumberSchema == Schema("number")
StringSchema == Schema("string")
ObjSchema == Schema("mapping")
ArraySchema == of(Schema("array"), Schema("any"))

(***************************************************************************)
(* The schemas the engine is exercised on, after tests/yup_a7p_schema.py:  *)
(* a percentage, a short name, a mapping of three declared fields and a    *)
(* list of distances that holds one entry.                                 *)
(***************************************************************************)
\* number().ge(0).le(100)
NumberInstance == test(test(NumberSchema, "ge", 0), "le", 100)
\* string().max(8)
StringInstance == test(StringSchema, "max", 8)
FieldKeys == << "c_zero_temperature", "c_zero_air_temperature", "c_zero_air_humidity" >>
\* obj().shape({key: number().ge(0).le(100) for each key})
MappingInstance == shape(ObjSchema, FieldKeys, [j \in DOMAIN FieldKeys |-> NumberInstance])
\* array().of(number().ge(100).le(300000)).min(1).max(1)
ArrayInstance ==
    test(test(of(ArraySchema, test(test(NumberSchema, "ge", 100), "le", 300000)),
              "min", 1), "max", 1)

\* obj().shape({'distances': array().of(number().ge(100).le(300000)).min(1).max(1)})
NestedInstance == shape(ObjSchema, << "distances" >>, << ArrayInstance >>)

Instance(kind) ==
    CASE kind = "number" -> NumberInstance
      [] kind = "nested" -> NestedInstance
      [] kind = "multiple" -> test(NumberInstance, "multiple_of", 5)
      [] kind = "string" -> StringInstance
      [] kind = "mapping" -> MappingInstance
      [] kind = "array" -> ArrayInstance

\* the values handed to validate
ScalarValues ==
    { Null, Bool(0), Bool(1), Number(-1), Number(50), Number(101),
      String(0), String(6), String(9) }

\* per declared key: absent (0), None (1), 50 (2), 101 (3)
FieldValue(option) == CASE option = 1 -> Null [] option = 2 -> Number(50) [] OTHER -> Number(101)

MappingOf(options) ==
    LET present == SelectSeq([j \in DOMAIN FieldKeys |-> j], LAMBDA j : options[j] # 0)
    IN  Mapping([m \in DOMAIN present |-> FieldKeys[present[m]]],
                [m \in DOMAIN present |-> FieldValue(options[present[m]])])

MappingValues == { MappingOf(options) : options \in [DOMAIN FieldKeys -> 0..3] }

SequenceValues ==
    UNION { { Sequence(items) : items \in [1..len -> { Null, Number(99), Number(100) }] } :
            len \in 0..MaxItems }

\* with each sequence as the value of the key "distances" of a mapping
Values ==
    ScalarValues \cup MappingValues \cup SequenceValues
    \cup { Mapping(<< "distances" >>, << items >>) : items \in SequenceValues }

\* no validate call has been made
Unset == [outcome |-> "unset", error |-> NoError, tests_run |-> 0]

(***************************************************************************)
(* State                                                                   *)
(***************************************************************************)
VARIABLES
    payload,             \* the profile of the Payload message being processed
    faults,              \* number of fields the producer set so far
    USE_SPEC_VALIDATOR,  \* a7p.py:32, set by setUseSpecValidator
    USE_YUPY_VALIDATOR,  \* a7p.py:33, set by setUseYupyValidator
    pc,                  \* position of the caller in load / attempt_to_recover
    fail_fast,           \* the fail_fast argument of the load of this run
    validation,          \* outcome of the last a7p.validate call
    start,               \* the record as it was when the run began
    spec_results,        \* results of recover_spec.recover in this run
    proto_results,       \* results of recover_proto.recover in this run
    ret,                 \* what attempt_to_recover returned ("unset" before)
    results_local,       \* the local variable results of attempt_to_recover
    runs,                \* number of runs started on this record
    schema,              \* the yup schema object under construction and use
    calls,               \* the builder calls made on it, in order
    value,               \* the value of the last schema.validate call
    abort_early,         \* the abort_early argument of that call
    result,              \* what that call did (Unset before any call)
    recover_funcs,       \* the dict recover_funcs of a Recover object
    looked_up,           \* what the last recover_one on it found (nothing before)
    semaphore,           \* __main__.py:24, the permits the Semaphore has free
    task                 \* position of each limited_to_thread task of process_files

profile_vars == << payload, faults, USE_SPEC_VALIDATOR, USE_YUPY_VALIDATOR, pc, fail_fast,
                   validation, start, spec_results, proto_results, ret, runs,
                   results_local >>

yup_vars == << schema, calls, value, abort_early, result >>

registry_vars == << recover_funcs, looked_up >>

pool_vars == << semaphore, task >>

vars == << profile_vars, yup_vars, registry_vars, pool_vars >>

(***************************************************************************)
(* Records a producer can hand over: the factory profile with up to        *)
(* MaxFaults fields replaced by the values below, or with one numeric      *)
(* field replaced by a value at the edge of a range.                       *)
(***************************************************************************)
IntFaults(key) ==
    CASE key = "c_muzzle_velocity" -> {1}
      [] key = "c_zero_air_humidity" -> {101}
      [] key = "c_zero_distance_idx" -> {-1, 2, 3, 5, 195, 196}
      [] key = "zero_x" -> {200001}

NumericKeys ==
    { "zero_x", "zero_y", "sc_height", "r_twist", "c_muzzle_velocity",
      "c_zero_temperature", "c_t_coeff", "c_zero_air_temperature",
      "c_zero_air_pressure", "c_zero_air_humidity", "c_zero_w_pitch",
      "c_zero_p_temperature", "b_diameter", "b_weight", "b_length" }

\* the stored integers next to the ends of the ranges either backend uses
EdgeValues(key) ==
    CASE key \in {"zero_x", "zero_y"} -> {-200001, -200000, 200000, 200001}
      [] key = "sc_height" -> {-5001, -5000, 5000, 5001}
      [] key = "r_twist" -> {-1, 0, 10000, 10001}
      [] key = "c_muzzle_velocity" -> {99, 100, 30000, 30001}
      [] key \in {"c_zero_temperature", "c_zero_air_temperature", "c_zero_p_temperature"} ->
           {-101, -100, 100, 101}
      [] key = "c_t_coeff" -> {-1, 0, 5000, 5001}
      [] key = "c_zero_air_pressure" -> {2999, 3000, 15000, 15001}
      [] key = "c_zero_air_humidity" -> {-1, 0, 100, 101}
      [] key = "c_zero_w_pitch" -> {-901, -900, -91, -90, 90, 91, 900, 901}
      [] key = "b_diameter" -> {0, 1, 50000, 50001}
      [] key = "b_weight" -> {9, 10, 65535, 65536}
      [] key = "b_length" -> {0, 1, 9, 10, 200000, 200001}

\* six rows with pairwise distinct mv, six rows sharing one non-zero mv
Rows6 == [j \in 1..6 |-> CoefRow(1000 * j, 1000 * j)]
Rows6Same == [j \in 1..6 |-> CoefRow(1000, 5000)]

(***************************************************************************)
(* Init: a fresh A7PFactory() payload, module flags as a7p.py sets them    *)
(***************************************************************************)
InitProfile ==
    /\ payload = A7PFactory
    /\ faults = 0
    /\ USE_SPEC_VALIDATOR = FALSE
    /\ USE_YUPY_VALIDATOR = TRUE
    /\ pc = "idle"
    /\ fail_fast = FALSE
    /\ validation = [raised |-> "none", spec_violations |-> <<>>,
                     proto_violations |-> <<>>, yupy_violations |-> <<>>]
    /\ start = A7PFactory
    /\ spec_results = <<>>
    /\ proto_results = <<>>
    /\ ret = "unset"
    /\ runs = 0
    /\ results_local = <<>>

\* a freshly constructed schema, no call made on it
InitYup ==
    /\ calls = <<>>
    /\ value = Null
    /\ abort_early = TRUE
    /\ result = Unset

\* the registry as the import of recover.py leaves it
InitRegistry ==
    /\ recover_funcs = ShippedFuncs
    /\ looked_up = [recovered |-> FALSE, path |-> <<>>, func |-> "none"]

\* no directory is being processed: no task exists, every permit is free
InitPool ==
    /\ semaphore = MAX_THREADS
    /\ task = <<>>

Init == InitProfile /\ InitYup /\ InitRegistry /\ InitPool /\ schema = NumberInstance

(***************************************************************************)
(* The producer of the record                                              *)
(***************************************************************************)
Producing == pc = "idle" /\ runs = 0 /\ faults < MaxFaults

UnchangedRun == UNCHANGED << USE_SPEC_VALIDATOR, USE_YUPY_VALIDATOR, pc, fail_fast,
                             validation, start, spec_results, proto_results, ret, runs,
                             results_local, yup_vars, registry_vars, pool_vars >>

CorruptInt ==
    /\ Producing
    /\ \E key \in { "c_muzzle_velocity", "c_zero_air_humidity", "c_zero_distance_idx", "zero_x" } : \E v \in IntFaults(key) :
          payload' = [payload EXCEPT ![key] = v]
    /\ faults' = faults + 1
    /\ UnchangedRun

SetEdge ==
    /\ pc = "idle" /\ runs = 0 /\ faults = 0
    /\ \E key \in NumericKeys : \E v \in EdgeValues(key) :
          payload' = [payload EXCEPT ![key] = v]
    /\ faults' = MaxFaults
    /\ UnchangedRun

CorruptStr ==
    /\ Producing
    /\ \E f \in { <<"profile_name", 51>>, <<"profile_name", 50>>,
                 <<"short_name_top", 9>>, <<"user_note", 1025>> } :
          payload' = [payload EXCEPT ![f[1]] = Str(f[2])]
    /\ faults' = faults + 1
    /\ UnchangedRun

CorruptEnum ==
    /\ Producing
    /\ \E f \in { <<"bc_type", "G1">>, <<"bc_type", "CUSTOM">>, <<"bc_type", "3">>,
                 <<"twist_dir", "3">> } :
          payload' = [payload EXCEPT ![f[1]] = f[2]]
    /\ faults' = faults + 1
    /\ UnchangedRun

CorruptDistances ==
    /\ Producing
    /\ \E d \in { <<1, 2, 3>>, <<10000, 20000, 30000>>, <<>>, [j \in 1..10 |-> 1] } :
          payload' = [payload EXCEPT !.distances = d]
    /\ faults' = faults + 1
    /\ UnchangedRun

CorruptCoefRows ==
    /\ Producing
    /\ \E rows \in { <<>>, Rows6, Rows6Same, << CoefRow(10001, 0) >> } :
          payload' = [payload EXCEPT !.coef_rows = rows]
    /\ faults' = faults + 1
    /\ UnchangedRun

CorruptSwitches ==
    /\ Producing
    /\ \E sw \in { SubSeq(Switches, 1, 3),
                    [Switches EXCEPT ![1].distance_from = "INDEX"],
                    [Switches EXCEPT ![1].distance = 50] } :
          payload' = [payload EXCEPT !.switches = sw]
    /\ faults' = faults + 1
    /\ UnchangedRun

(***************************************************************************)
(* a7p.py : setUseSpecValidator, setUseYupyValidator                       *)
(***************************************************************************)
setUseSpecValidator ==
    /\ pc = "idle" /\ runs = 0
    /\ \E flag \in BOOLEAN : flag # USE_SPEC_VALIDATOR /\ USE_SPEC_VALIDATOR' = flag
    /\ UNCHANGED << payload, faults, USE_YUPY_VALIDATOR, pc, fail_fast, validation,
                    start, spec_results, proto_results, ret, runs, results_local,
                    yup_vars, registry_vars, pool_vars >>

setUseYupyValidator ==
    /\ pc = "idle" /\ runs = 0
    /\ \E flag \in BOOLEAN : flag # USE_YUPY_VALIDATOR /\ USE_YUPY_VALIDATOR' = flag
    /\ UNCHANGED << payload, faults, USE_SPEC_VALIDATOR, pc, fail_fast, validation,
                    start, spec_results, proto_results, ret, runs, results_local,
                    yup_vars, registry_vars, pool_vars >>

(***************************************************************************)
(* One run of the recovery on the record: the load that validates it       *)
(* (a7p.loads in process_file, load in tests/spec_validator.py), then      *)
(* recover_payload / attempt_to_recover on the error it raised.            *)
(***************************************************************************)
\* a run may start on a fresh record, on one the load accepted and on one a
\* run of attempt_to_recover left behind; a load that ended in an exception
\* other than A7PValidationError has ended the process with the record as
\* it was.
\* a7p.loads(data, validate_=True, fail_fast=ff) and the caller's except
\* clause: a returned payload carries no validation_error ("No violations
\* found", no tier is entered); an A7PValidationError is kept for
\* attempt_to_recover; any other exception ends the run
Load ==
    /\ pc \in {"idle", "valid", "done", "crashed"} /\ runs < MaxRuns
    /\ \E ff \in BOOLEAN :
          /\ fail_fast' = ff
          /\ validation' = validate(payload, ff, USE_SPEC_VALIDATOR, USE_YUPY_VALIDATOR)
    /\ pc' = CASE validation'.raised = "none" -> "valid"
               [] validation'.raised = "A7PSpecValidationError" -> "caught"
               [] OTHER -> "load_crashed"
    /\ start' = payload
    /\ spec_results' = <<>>
    /\ proto_results' = <<>>
    /\ ret' = "unset"
    /\ runs' = runs + 1
    /\ results_local' = <<>>
    /\ UNCHANGED << payload, faults, USE_SPEC_VALIDATOR, USE_YUPY_VALIDATOR,
                    yup_vars, registry_vars, pool_vars >>

\* recover_process.py:24  results = recover_spec.recover(payload, spec_violations)
RecoverSpecTier ==
    /\ pc = "caught"
    /\ LET r == recover("spec", payload, validation.spec_violations)
       IN  /\ payload' = r.p
           /\ spec_results' = r.results
           /\ results_local' = r.results
           /\ pc' = IF r.exc = "none" THEN "spec_done" ELSE "crashed"
    /\ UNCHANGED << faults, USE_SPEC_VALIDATOR, USE_YUPY_VALIDATOR, fail_fast,
                    validation, start, proto_results, ret, runs,
                    yup_vars, registry_vars, pool_vars >>

\* recover_process.py:30-33  validate(payload, fail_fast=True)
Revalidate ==
    /\ pc = "spec_done"
    /\ validation' = validate(payload, TRUE, USE_SPEC_VALIDATOR, USE_YUPY_VALIDATOR)
    /\ pc' = CASE validation'.raised = "none" -> "done"
               [] validation'.raised = "A7PSpecValidationError" -> "caught_again"
               [] OTHER -> "crashed"
    /\ ret' = IF validation'.raised = "none" THEN "None" ELSE ret
    /\ UNCHANGED << payload, faults, USE_SPEC_VALIDATOR, USE_YUPY_VALIDATOR, fail_fast,
                    start, spec_results, proto_results, runs, results_local,
                    yup_vars, registry_vars, pool_vars >>

\* the proto tier entered without the re-validation, over the violations
\* the load found
Mutant_RecoverProtoTier ==
    /\ pc = "spec_done"
    /\ LET r == recover("proto", payload, validation.spec_violations)
       IN  /\ payload' = r.p
           /\ proto_results' = r.results
           /\ results_local' = r.results
           /\ pc' = IF r.exc = "none" THEN "proto_done" ELSE "crashed"
    /\ UNCHANGED << faults, USE_SPEC_VALIDATOR, USE_YUPY_VALIDATOR, fail_fast,
                    validation, start, spec_results, ret, runs,
                    yup_vars, registry_vars, pool_vars >>

\* recover_process.py:37  results = recover_proto.recover(err.payload, err.proto_violations)
RecoverProtoTier ==
    /\ pc = "caught_again"
    /\ LET r == recover("proto", payload, validation.proto_violations)
       IN  /\ payload' = r.p
           /\ proto_results' = r.results
           /\ results_local' = r.results
           /\ pc' = IF r.exc = "none" THEN "proto_done" ELSE "crashed"
    /\ UNCHANGED << faults, USE_SPEC_VALIDATOR, USE_YUPY_VALIDATOR, fail_fast,
                    validation, start, spec_results, ret, runs,
                    yup_vars, registry_vars, pool_vars >>

\* recover_process.py:43-57  validate(err.payload, fail_fast=False)
FinalValidate ==
    /\ pc = "proto_done"
    /\ validation' = validate(payload, FALSE, USE_SPEC_VALIDATOR, USE_YUPY_VALIDATOR)
    /\ pc' = CASE validation'.raised = "none" -> "done"
               [] validation'.raised = "TypeError" -> "crashed"
               [] OTHER -> "done"
    /\ ret' = CASE validation'.raised = "none" -> "None"
                [] validation'.raised = "TypeError" -> ret
                [] OTHER -> "err"
    /\ UNCHANGED << payload, faults, USE_SPEC_VALIDATOR, USE_YUPY_VALIDATOR, fail_fast,
                    start, spec_results, proto_results, runs, results_local,
                    yup_vars, registry_vars, pool_vars >>

Next ==
    \/ CorruptInt
    \/ SetEdge
    \/ CorruptStr
    \/ CorruptEnum
    \/ CorruptDistances
    \/ CorruptCoefRows
    \/ CorruptSwitches
    \/ setUseSpecValidator
    \/ setUseYupyValidator
    \/ Load
    \/ RecoverSpecTier
    \/ Revalidate
    \/ RecoverProtoTier
    \/ FinalValidate

Spec == Init /\ [][Next]_vars

(***************************************************************************)
(* The schema engine at work: builder calls on a constructed schema, then  *)
(* schema.validate(value, abort_early) at the root path "".                *)
(***************************************************************************)
Building == result = Unset /\ Len(calls) < MaxCalls

\* the schema object a call is made on: the root (0) or the schema of the
\* j-th declared field
Targets == 0..Len(schema.fields)

UnchangedByBuilder ==
    UNCHANGED << profile_vars, registry_vars, pool_vars, value, abort_early, result >>

CallRequired ==
    /\ Building
    /\ \E target \in Targets :
          /\ schema' = IF target = 0 THEN required(schema)
                       ELSE [schema EXCEPT !.fields[target] = required(@)]
          /\ calls' = Append(calls, [name |-> "required", target |-> target])
    /\ UnchangedByBuilder

CallNotRequired ==
    /\ Building
    /\ \E target \in Targets :
          /\ schema' = IF target = 0 THEN not_required(schema)
                       ELSE [schema EXCEPT !.fields[target] = not_required(@)]
          /\ calls' = Append(calls, [name |-> "not_required", target |-> target])
    /\ UnchangedByBuilder

CallNullable ==
    /\ Building
    /\ schema' = nullable(schema)
    /\ calls' = Append(calls, [name |-> "nullable", target |-> 0])
    /\ UnchangedByBuilder

CallNotNullable ==
    /\ Building
    /\ schema' = not_nullable(schema)
    /\ calls' = Append(calls, [name |-> "not_nullable", target |-> 0])
    /\ UnchangedByBuilder

\* schema.validate(v, ae): path defaults to ""
CallValidate ==
    /\ result = Unset
    /\ \E v \in Values : \E ae \in BOOLEAN :
          /\ value' = v
          /\ abort_early' = ae
          /\ result' = validate_any(schema, v, ae, <<>>)
    /\ UNCHANGED << profile_vars, registry_vars, pool_vars, schema, calls >>

InitSchema ==
    /\ InitProfile /\ InitYup /\ InitRegistry /\ InitPool
    /\ \E kind \in {"number", "multiple", "string", "mapping", "array", "nested"} :
          schema = Instance(kind)

NextYup ==
    \/ CallRequired
    \/ CallNotRequired
    \/ CallNullable
    \/ CallNotNullable
    \/ CallValidate

SpecYup == InitSchema /\ [][NextYup]_vars

(***************************************************************************)
(* A Recover object at work: fixes registered under further keys, and      *)
(* recover_one looking up the fix of a violation.                          *)
(***************************************************************************)
CallRegister ==
    /\ \E path \in RegistryPaths : \E func \in { "_recover_spec_c_muzzle_velocity", "_recover_spec_zero_x" } :
          recover_funcs' = register(recover_funcs, path, func)
    /\ UNCHANGED << profile_vars, yup_vars, pool_vars, looked_up >>

CallRecoverOne ==
    /\ \E path \in RegistryPaths : looked_up' = Recover_lookup(recover_funcs, path)
    /\ UNCHANGED << profile_vars, yup_vars, pool_vars, recover_funcs >>

NextRegistry ==
    \/ CallRegister
    \/ CallRecoverOne

SpecRegistry == Init /\ [][NextRegistry]_vars

(***************************************************************************)
(* __main__.py : process_files on a directory.  One limited_to_thread task *)
(* per file is handed to gather; a task takes a permit of the semaphore    *)
(* (async with), runs process_file in a thread (asyncio.to_thread) and     *)
(* gives the permit back on the way out of the async with block.           *)
(***************************************************************************)
\* tasks.append(limited_to_thread(process_file, item, ...)) for each file
InitTasks ==
    /\ InitProfile /\ InitYup /\ InitRegistry /\ schema = NumberInstance
    /\ semaphore = MAX_THREADS
    /\ \E n \in 1..MaxFiles : task = [t \in 1..n |-> "created"]

\* async with semaphore: acquire waits while no permit is free; then
\* asyncio.to_thread starts process_file
TaskEnters ==
    /\ \E t \in DOMAIN task :
          /\ task[t] = "created"
          /\ semaphore > 0
          /\ task' = [task EXCEPT ![t] = "running"]
    /\ semaphore' = semaphore - 1
    /\ UNCHANGED << profile_vars, yup_vars, registry_vars >>

\* process_file returned its Result: the block is left, release()
TaskReturns ==
    /\ \E t \in DOMAIN task :
          /\ task[t] = "running"
          /\ task' = [task EXCEPT ![t] = "returned"]
    /\ semaphore' = semaphore + 1
    /\ UNCHANGED << profile_vars, yup_vars, registry_vars >>

\* a task whose exception leaves the permit taken
Mutant_TaskRaises ==
    /\ \E t \in DOMAIN task :
          /\ task[t] = "running"
          /\ task' = [task EXCEPT ![t] = "raised"]
    /\ UNCHANGED << profile_vars, yup_vars, registry_vars, semaphore >>

\* process_file raised (it catches IOError and A7PDataError only): the
\* exception leaves the block, release()
TaskRaises ==
    /\ \E t \in DOMAIN task :
          /\ task[t] = "running"
          /\ task' = [task EXCEPT ![t] = "raised"]
    /\ semaphore' = semaphore + 1
    /\ UNCHANGED << profile_vars, yup_vars, registry_vars >>

\* gather re-raises the exception of a task, process_files ends and
\* asyncio.run cancels the tasks left: one that waits for a permit ends
\* without a thread, one that awaits its thread leaves the block
\* (release()) while the thread goes on running process_file
CancelAll ==
    /\ \E t \in DOMAIN task : task[t] = "raised"
    /\ \E t \in DOMAIN task : task[t] \in {"created", "running"}
    /\ task' = [t \in DOMAIN task |->
                  CASE task[t] = "created" -> "cancelled"
                    [] task[t] = "running" -> "abandoned"
                    [] OTHER -> task[t]]
    /\ semaphore' = semaphore + Cardinality({ t \in DOMAIN task : task[t] = "running" })
    /\ UNCHANGED << profile_vars, yup_vars, registry_vars >>

NextPool ==
    \/ TaskEnters
    \/ TaskReturns
    \/ TaskRaises
    \/ CancelAll

SpecPool == InitTasks /\ [][NextPool]_vars

(***************************************************************************)
(* Vocabulary of the properties                                            *)
(***************************************************************************)
\* the load of this run has just validated the record `start`
Loaded == pc \in {"valid", "caught", "load_crashed"}

\* a validator backend is switched on
BackendEnabled == USE_SPEC_VALIDATOR \/ USE_YUPY_VALIDATOR

IsPrefix(prefix, path) ==
    Len(prefix) <= Len(path) /\ SubSeq(path, 1, Len(prefix)) = prefix

\* the paths of the violations the last validation found
ViolationPaths ==
    { validation.spec_violations[j].path : j \in DOMAIN validation.spec_violations }
    \cup { validation.yupy_violations[j].path : j \in DOMAIN validation.yupy_violations }

FieldRejected(key) == (ProfilePath \o <<K(key)>>) \in ViolationPaths

\* the run of the pipeline on the record has ended
PipelineOver == pc \in {"done", "crashed"}

AllResults == spec_results \o proto_results

(***************************************************************************)
(* C1                                                                      *)
(***************************************************************************)
\* a violation for the index rule: the dependency violation of
\* _check_distances, or a violation reported at c_zero_distance_idx
IndexRuleRejected ==
    \/ DistancesStrPath \in ViolationPaths
    \/ FieldRejected("c_zero_distance_idx")

\* C1: for a record with N distances and c_zero_distance_idx = i that an
\* enabled backend (the default one included) validates, a violation for
\* the index rule is reported iff not 0 <= i < N: i = N and i = -1 are
\* rejected, i = N - 1 is accepted.
C1_IndexDependency ==
    (Loaded /\ BackendEnabled) =>
        (IndexRuleRejected <=>
            ~ (0 <= start.c_zero_distance_idx
               /\ start.c_zero_distance_idx < Len(start.distances)))

(***************************************************************************)
(* C2                                                                      *)
(***************************************************************************)
\* the range [min, max] and the divisor d each _check_<field> declares, as
\* the stored integers min * d and max * d
DeclaredStored(key) ==
    CASE key \in {"zero_x", "zero_y"} -> [lo |-> -200000, hi |-> 200000]
      [] key = "sc_height" -> [lo |-> -5000, hi |-> 5000]
      [] key = "r_twist" -> [lo |-> 0, hi |-> 10000]
      [] key = "c_muzzle_velocity" -> [lo |-> 100, hi |-> 30000]
      [] key \in {"c_zero_temperature", "c_zero_air_temperature", "c_zero_p_temperature"} ->
           [lo |-> -100, hi |-> 100]
      [] key = "c_t_coeff" -> [lo |-> 0, hi |-> 5000]
      [] key = "c_zero_air_pressure" -> [lo |-> 3000, hi |-> 15000]
      [] key = "c_zero_air_humidity" -> [lo |-> 0, hi |-> 100]
      [] key = "c_zero_w_pitch" -> [lo |-> -900, hi |-> 900]
      [] key = "b_diameter" -> [lo |-> 1, hi |-> 50000]
      [] key = "b_weight" -> [lo |-> 10, hi |-> 65535]
      [] key = "b_length" -> [lo |-> 10, hi |-> 200000]

\* C2: for every numeric field declared [min, max] at divisor d, an enabled
\* backend rejects the stored integer v iff v lies outside min*d .. max*d:
\* min*d and max*d are accepted, min*d - 1 and max*d + 1 are rejected.
C2_DeclaredRange ==
    (Loaded /\ BackendEnabled) =>
        \A key \in NumericKeys :
            FieldRejected(key) <=>
                ~ (DeclaredStored(key).lo <= start[key] /\ start[key] <= DeclaredStored(key).hi)

(***************************************************************************)
(* C3                                                                      *)
(***************************************************************************)
\* a violation at coef_rows or below it
CoefRowsRejected == \E path \in ViolationPaths : IsPrefix(CoefRowsPath, path)

\* every row within the ranges both backends give bc_cd and mv for every
\* bc_type
RowsInRange(rows) ==
    \A j \in DOMAIN rows :
        /\ 0 <= rows[j].bc_cd /\ rows[j].bc_cd <= 10000
        /\ 0 <= rows[j].mv /\ rows[j].mv <= 10000

DistinctMv(rows) ==
    \A a, b \in DOMAIN rows : (a # b /\ rows[a].mv # 0) => rows[a].mv # rows[b].mv

CoefRowsRouting ==
    /\ (Len(start.coef_rows) = 6 /\ start.bc_type = "CUSTOM") => ~ CoefRowsRejected
    /\ (Len(start.coef_rows) = 6 /\ start.bc_type \in {"G1", "G7"}) => CoefRowsRejected
    /\ (Len(start.coef_rows) = 0 /\ start.bc_type \in {"G1", "G7", "CUSTOM"}) =>
           CoefRowsRejected

Reported ==
    IF validation.raised = "A7PSpecValidationError"
    THEN validation.spec_violations
    ELSE <<>>

\* exactly three fields violate, each on its own: zero_x, c_muzzle_velocity
\* and c_zero_air_humidity, in the order the profile declares them
ThreeViolatingFields ==
    /\ faults = 3
    /\ start.zero_x = 200001
    /\ start.c_muzzle_velocity = 1
    /\ start.c_zero_air_humidity = 101

\* C4: for a record with exactly three independently violating fields,
\* validate with fail_fast reports exactly one violation, that of the first
\* violating field in declaration order, and without fail_fast it reports
\* all three.
C4_FailFastReports ==
    (Loaded /\ BackendEnabled /\ ThreeViolatingFields) =>
        IF fail_fast
        THEN /\ Len(Reported) = 1
             /\ Reported[1].path = ProfilePath \o <<K("zero_x")>>
        ELSE { Reported[j].path : j \in DOMAIN Reported } =
                 { ProfilePath \o <<K(key)>> :
                     key \in {"zero_x", "c_muzzle_velocity", "c_zero_air_humidity"} }

(***************************************************************************)
(* C5                                                                      *)
(***************************************************************************)
\* C5: a second run of the pipeline on the record the first run left
\* changes nothing and produces no RecoverResult; on a record that
\* validates no tier is entered.
C5_SecondRunNoOp ==
    /\ runs >= 2 => (payload = start /\ spec_results = <<>> /\ proto_results = <<>>)
    /\ pc = "valid" => (payload = start /\ spec_results = <<>> /\ proto_results = <<>>)

(***************************************************************************)
(* C6                                                                      *)
(***************************************************************************)
MuzzleVelocityPath == ProfilePath \o <<K("c_muzzle_velocity")>>

\* the record's only fault is c_muzzle_velocity = 1: the load found that
\* one violation and no other
OnlyFaultMuzzleVelocity ==
    /\ start.c_muzzle_velocity = 1
    /\ Len(validation.spec_violations) = 1
    /\ validation.spec_violations[1].path = MuzzleVelocityPath

\* C6: for a record whose only fault is c_muzzle_velocity = 1 the spec tier
\* returns exactly one RecoverResult, for the c_muzzle_velocity path, with
\* recovered = true, old_value = 1 and new_value = 8000, and the recovered
\* value passes _check_c_muzzle_velocity.
C6_SpecTierMuzzleVelocity ==
    (pc = "spec_done" /\ OnlyFaultMuzzleVelocity) =>
        /\ Len(spec_results) = 1
        /\ spec_results[1].recovered
        /\ spec_results[1].path = MuzzleVelocityPath
        /\ spec_results[1].old_value = 1
        /\ spec_results[1].new_value = 8000
        /\ payload.c_muzzle_velocity = spec_results[1].new_value
        /\ _check_c_muzzle_velocity(payload.c_muzzle_velocity)

C6_Witness ==
    /\ pc = "spec_done" /\ OnlyFaultMuzzleVelocity
    /\ Len(spec_results) = 1 /\ spec_results[1].recovered
    /\ payload.c_muzzle_velocity = 8000

(***************************************************************************)
(* C7                                                                      *)
(***************************************************************************)
ScenarioRecord == start.distances = <<1, 2, 3>> /\ start.c_zero_distance_idx = 5

DistancesPath == ProfilePath \o <<K("distances")>>

\* the run has ended: the pipeline returned or an exception left it
RunEnded == pc \in {"done", "crashed", "load_crashed"}

\* C7: for distances = [1,2,3] and c_zero_distance_idx = 5 the validation
\* before recovery reports the broken index dependency and the out-of-range
\* distances, the pipeline yields a RecoverResult with recovered = true, and
\* after it c_zero_distance_idx < len(distances).
C7_EndToEnd ==
    (BackendEnabled /\ ScenarioRecord) =>
        /\ Loaded =>
              /\ IndexRuleRejected
              /\ \E path \in ViolationPaths :
                    IsPrefix(DistancesPath, path) /\ Len(path) > Len(DistancesPath)
        /\ RunEnded =>
              /\ \E j \in DOMAIN AllResults : AllResults[j].recovered
              /\ payload.c_zero_distance_idx < Len(payload.distances)

(***************************************************************************)
(* Vocabulary of the engine properties                                     *)
(***************************************************************************)
\* a schema.validate call has been made: result tells what it did to value
Validated == result # Unset

\* the leaves of a violation tree, in traversal order
RECURSIVE Leaves(_)
Leaves(err) ==
    IF err.errors = <<>> THEN << err >>
    ELSE Concat([j \in DOMAIN err.errors |-> Leaves(err.errors[j])])

\* the violations a validate call reported
ReportedLeaves == IF result.outcome = "ValidationError" THEN Leaves(result.error) ELSE <<>>

\* ObjSchema on a record whose three declared fields all violate: abort_early
\* reports the first field's violation alone, collect-all reports the three
\* as leaves
ObjSchemaFailFast ==
    (Validated /\ schema.type = "mapping" /\ value = MappingOf([j \in DOMAIN FieldKeys |-> 3])) =>
        IF abort_early
        THEN /\ Len(ReportedLeaves) = 1
             /\ ReportedLeaves[1].path = << K(FieldKeys[1]) >>
        ELSE [j \in DOMAIN ReportedLeaves |-> ReportedLeaves[j].path] =
                 [j \in DOMAIN FieldKeys |-> << K(FieldKeys[j]) >>]

(***************************************************************************)
(* C8                                                                      *)
(***************************************************************************)
\* C8: a scalar schema (string or number) given a non-null value of another
\* kind, a boolean given to a number schema included, raises a type
\* violation at the root path and calls none of its tests.
C8_TypeViolation ==
    (Validated /\ schema.type \in {"number", "string"}
        /\ value.kind # "null" /\ value.kind # schema.type) =>
        /\ result.outcome = "ValidationError"
        /\ result.error.constraint = "type"
        /\ result.error.path = <<>>
        /\ result.tests_run = 0

(***************************************************************************)
(* C9                                                                      *)
(***************************************************************************)
\* C9: for a scalar, a mapping and a sequence schema alike, validating None
\* returns without a violation iff the schema is nullable, and otherwise
\* raises the not-nullable violation at the node's path; a nullable mapping
\* or sequence accepts None without looking at fields or elements.
C9_NullHandling ==
    (Validated /\ value.kind = "null") =>
        IF schema.nullability
        THEN result.outcome = "ok"
        ELSE /\ result.outcome = "ValidationError"
             /\ result.error.constraint = "nullable"
             /\ result.error.path = <<>>
             /\ result.error.errors = <<>>

(***************************************************************************)
(* C10                                                                     *)
(***************************************************************************)
MappingValidated == Validated /\ schema.type = "mapping" /\ value.kind = "mapping"

Absent(j) == ~ HasKey(value, schema.keys[j])

RequiredReported(j) ==
    \E m \in DOMAIN ReportedLeaves :
        /\ ReportedLeaves[m].constraint = "required"
        /\ ReportedLeaves[m].path = << K(schema.keys[j]) >>

\* the last required / not_required call made on the schema of field j
\* ("none": the field is as constructed)
LastMark(j) ==
    LET marks == SelectSeq(calls, LAMBDA c : c.target = j
                                             /\ c.name \in {"required", "not_required"})
    IN  IF marks = <<>> THEN "none" ELSE marks[Len(marks)].name

\* the j-th declared field fails: required and absent, or present with a
\* value its schema rejects
FieldFails(j) ==
    IF Absent(j) THEN LastMark(j) = "required"
    ELSE validate_any(schema.fields[j], ValueAt(value, schema.keys[j]), abort_early,
                      << K(schema.keys[j]) >>).outcome # "ok"

\* C10 as stated: for every declared field absent from the value a required
\* violation at path/key is reported iff the field was marked required.
C10_AsStated ==
    MappingValidated =>
        \A j \in DOMAIN schema.keys :
            Absent(j) => (RequiredReported(j) <=> LastMark(j) = "required")

\* C10: for every declared field absent from the value a required violation
\* at path/key is reported iff the field's last mark is required() and, when
\* abort_early, no earlier declared field fails; a field left as
\* constructed, or marked required and then not_required, is optional and
\* its absence reports nothing.
C10_RequiredFields ==
    MappingValidated =>
        \A j \in DOMAIN schema.keys :
            /\ schema.fields[j].optional <=> LastMark(j) # "required"
            /\ Absent(j) =>
                 (RequiredReported(j) <=>
                     /\ LastMark(j) = "required"
                     /\ abort_early => \A m \in 1..(j - 1) : ~ FieldFails(m))

\* field 2 marked required and then not_required, absent, nothing reported
C10_Witness ==
    /\ MappingValidated
    /\ calls = << [name |-> "required", target |-> 2],
                  [name |-> "not_required", target |-> 2] >>
    /\ Absent(2)
    /\ result.outcome = "ok"

(***************************************************************************)
(* C11                                                                     *)
(***************************************************************************)
\* C11: a run of attempt_to_recover always ends by returning (None or the
\* final validation error), and what it holds for its caller when it ends
\* is the full list of results of the spec tier followed by those of the
\* proto tier.
C11_ReturnsOutcomeAndResults ==
    PipelineOver =>
        /\ pc = "done"
        /\ ret \in {"None", "err"}
        /\ results_local = spec_results \o proto_results

(***************************************************************************)
(* C12                                                                     *)
(***************************************************************************)
\* C12: Recover.recover completes without raising: the spec tier on the
\* violations of the failed validation, and the proto tier on a violation
\* at any path it has a fix registered for.
C12_RecoverNeverRaises ==
    /\ pc = "caught" =>
           recover("spec", payload, validation.spec_violations).exc = "none"
    /\ pc = "caught_again" =>
           \A path \in recover_proto_paths :
               recover("proto", payload, << SpecViolation(path, "proto") >>).exc = "none"

(***************************************************************************)
(* C13                                                                     *)
(***************************************************************************)
\* recover(tier, record, violations) returned one result per violation, in
\* their order, recovered iff the tier has a fix registered for the path;
\* a step with no registered fix left the record as it was and its result
\* carries no value
OneResultPerViolation(tier, record, violations) ==
    LET r == recover(tier, record, violations)
    IN  /\ r.exc = "none"
        /\ Len(r.results) = Len(violations)
        /\ \A j \in DOMAIN violations :
              /\ r.results[j].path = violations[j].path
              /\ r.results[j].recovered <=> Registered(tier, violations[j].path)
              /\ ~ Registered(tier, violations[j].path) =>
                    /\ recover_one(tier, record, violations[j]).p = record
                    /\ r.results[j].old_value = "None"
                    /\ r.results[j].new_value = "None"

\* C13: the spec tier, run on the violations of the failed validation,
\* returns exactly one RecoverResult per violation, in the order of the
\* violations, recovered=true iff a fix is registered for the path; an
\* unregistered violation leaves the record unchanged and carries no value.
C13_OneResultPerViolation ==
    pc = "caught" => OneResultPerViolation("spec", payload, validation.spec_violations)

(***************************************************************************)
(* C14                                                                     *)
(***************************************************************************)
\* the fix a lookup by leaf name first, full path second, resolves to
LeafFirst(funcs, path) ==
    LET leaf == << path[Len(path)] >>
    IN  IF leaf \in DOMAIN funcs /\ funcs[leaf] # "none" THEN funcs[leaf] ELSE funcs[path]

\* C14: recover_one resolves a violation path to the fix registered under
\* the path's leaf field name and, only if nothing is registered under the
\* leaf name, to the fix registered under the full path.
C14_LeafNameFirst ==
    [][CallRecoverOne => looked_up'.func = LeafFirst(recover_funcs, looked_up'.path)]_vars

(***************************************************************************)
(* C15                                                                     *)
(***************************************************************************)
\* C15: every call of a7p.validate (by the load, by the re-validation and
\* by the final validation) either returns, and then no enabled backend
\* found a violation, or raises A7PValidationError (A7PSpecValidationError
\* is one) carrying the violations found; no other exception escapes.
C15_ValidateRaisesValidationError ==
    runs > 0 =>
        \/ /\ validation.raised = "none"
           /\ validation.spec_violations = <<>>
           /\ validation.yupy_violations = <<>>
        \/ /\ validation.raised = "A7PSpecValidationError"
           /\ validation.spec_violations \o validation.yupy_violations # <<>>

(***************************************************************************)
(* C16                                                                     *)
(***************************************************************************)
\* the ranges of one row by bc_type, in stored integers
RowWithin(bc_type, row) ==
    IF bc_type \in {"G1", "G7"}
    THEN /\ 0 <= row.bc_cd /\ row.bc_cd <= 10000
         /\ 0 <= row.mv /\ row.mv <= 30000
    ELSE /\ 0 <= row.bc_cd /\ row.bc_cd <= 100000
         /\ 0 <= row.mv /\ row.mv <= 100000

\* a violation at row j of coef_rows or below it
RowRejected(j) ==
    \E path \in ViolationPaths : IsPrefix(CoefRowsPath \o <<I(j - 1)>>, path)

\* C16: under G1 and G7 a coef_rows element is valid iff 0 <= bc_cd <= 10000
\* and 0 <= mv <= 30000; under CUSTOM it is valid iff 0 <= bc_cd <= 100000
\* and 0 <= mv <= 100000 (checked on lists of 1 to 5 rows, whose violations
\* are never replaced by the "too many errors" one).
C16_CoefRowRanges ==
    (Loaded /\ BackendEnabled /\ start.bc_type \in {"G1", "G7", "CUSTOM"}
        /\ Len(start.coef_rows) \in 1..5) =>
        \A j \in DOMAIN start.coef_rows :
            RowRejected(j) <=> ~ RowWithin(start.bc_type, start.coef_rows[j])

(***************************************************************************)
(* C17                                                                     *)
(***************************************************************************)
\* C17: a bc_type outside G1, G7 and CUSTOM is reported by a violation at
\* the bc_type field, and no violation is reported at coef_rows or below
\* it, whatever coef_rows contains.
C17_UnknownBcType ==
    (Loaded /\ BackendEnabled /\ start.bc_type \notin {"G1", "G7", "CUSTOM"}) =>
        /\ FieldRejected("bc_type")
        /\ ~ CoefRowsRejected

(***************************************************************************)
(* C18                                                                     *)
(***************************************************************************)
\* one RecoverResult per violation of the list, in its order
ResultsOver(results, violations) ==
    /\ Len(results) = Len(violations)
    /\ \A j \in DOMAIN results : results[j].path = violations[j].path

ValidatedLast(ff) ==
    validation = validate(payload, ff, USE_SPEC_VALIDATOR, USE_YUPY_VALIDATOR)

\* C19: attempt_to_recover returns None only if a validation that ran
\* after the last change of the record passed, and whenever the last
\* validation of the run failed it returns the error of that validation.
C19_SuccessOnlyAfterValidation ==
    /\ ret = "None" =>
           /\ validation.raised = "none"
           /\ \E ff \in BOOLEAN : ValidatedLast(ff)
    /\ (PipelineOver /\ validation.raised # "none") => ret = "err"

(***************************************************************************)
(* C20                                                                     *)
(***************************************************************************)
\* a sequence handed to an array schema one of whose length tests it fails
LengthTestFails ==
    /\ schema.type = "array" /\ value.kind = "sequence"
    /\ \E j \in DOMAIN schema.validators :
          /\ schema.validators[j].name \in {"min", "max"}
          /\ TestFails(schema.validators[j], value)

\* element j of the sequence violates the schema of the elements
ElementFails(j) ==
    validate_any(schema.type_of[1], value.items[j], abort_early,
                 << I(j - 1) >>).outcome = "ValidationError"

LeafAt(path) == \E m \in DOMAIN ReportedLeaves : ReportedLeaves[m].path = path

\* C20: when a length test of a sequence fails, a collect-all validation
\* still validates every element at path[i] and reports the length
\* violation together with the violations of the elements; a fail-fast
\* validation reports the length violation alone.
C20_LengthThenElements ==
    (Validated /\ LengthTestFails) =>
        IF abort_early
        THEN /\ Len(ReportedLeaves) = 1
             /\ ReportedLeaves[1].constraint \in {"min", "max"}
             /\ ReportedLeaves[1].path = <<>>
        ELSE /\ \E m \in DOMAIN ReportedLeaves :
                    /\ ReportedLeaves[m].constraint \in {"min", "max"}
                    /\ ReportedLeaves[m].path = <<>>
             /\ \A j \in DOMAIN value.items : ElementFails(j) => LeafAt(<< I(j - 1) >>)

(***************************************************************************)
(* C21                                                                     *)
(***************************************************************************)
\* the registered tests the value fails, by position
FailingTests == { j \in DOMAIN schema.validators : TestFails(schema.validators[j], value) }

\* the names of the failing tests, in registration order
FailingNames ==
    LET failing == SelectSeq([j \in DOMAIN schema.validators |-> j],
                             LAMBDA j : j \in FailingTests)
    IN  [m \in DOMAIN failing |-> schema.validators[failing[m]].name]

\* a scalar schema given a value of its type that fails two tests or more
FailsSeveralTests ==
    /\ schema.type \in {"number", "string"}
    /\ isinstance(value, schema.type)
    /\ Cardinality(FailingTests) >= 2

\* C21: for a scalar schema with several tests and a value failing two or
\* more of them, a collect-all validation runs every test and reports every
\* failure, in registration order; a fail-fast validation reports the first
\* failing test alone.
C21_AllFailingTests ==
    (Validated /\ FailsSeveralTests) =>
        IF abort_early
        THEN [m \in DOMAIN ReportedLeaves |-> ReportedLeaves[m].constraint] =
                 << FailingNames[1] >>
        ELSE /\ [m \in DOMAIN ReportedLeaves |-> ReportedLeaves[m].constraint] = FailingNames
             /\ result.tests_run = Len(schema.validators)

(***************************************************************************)
(* C22                                                                     *)
(***************************************************************************)
\* the index dependency of the record fails and nothing else about the
\* index or the distances does
DependencyAloneFails(profile) ==
    /\ ~ _check_dependency_distances(profile.c_zero_distance_idx, profile.distances)
    /\ _check_c_zero_distance_idx(profile.c_zero_distance_idx)
    /\ assert_items_count(profile.distances, 1, 200)
    /\ \A j \in DOMAIN profile.distances : _check_one_distance(profile.distances[j])

\* C22: when the index dependency fails, the spec backend records the
\* violation at the path of the distances field, under which the distances
\* fix is registered, and at neither "Distances" nor c_zero_distance_idx; a
\* dependency violation alone makes the spec tier run the distances fix.
C22_DependencyAtDistances ==
    /\ (Loaded /\ USE_SPEC_VALIDATOR /\ DependencyAloneFails(start)) =>
           /\ \E j \in DOMAIN validation.spec_violations :
                 validation.spec_violations[j].path = DistancesPath
           /\ \A j \in DOMAIN validation.spec_violations :
                 validation.spec_violations[j].path \notin
                     { DistancesStrPath, ProfilePath \o << K("c_zero_distance_idx") >> }
    /\ (pc = "spec_done" /\ DependencyAloneFails(start)) =>
           \E j \in DOMAIN spec_results :
               spec_results[j].path = DistancesPath /\ spec_results[j].recovered

(***************************************************************************)
(* C23                                                                     *)
(***************************************************************************)
\* the spec backend reported a violation with this path and reason
SpecReported(path, reason) ==
    \E j \in DOMAIN validation.spec_violations :
        validation.spec_violations[j] = SpecViolation(path, reason)

\* C23: whatever the number of element errors, the violations that are not
\* element errors are reported one by one: the range of the index, the
\* index dependency and the item count of distances, the item count of
\* coef_rows and an invalid bc_type.
C23_NonElementViolationsKept ==
    (Loaded /\ USE_SPEC_VALIDATOR) =>
        /\ ~ _check_c_zero_distance_idx(start.c_zero_distance_idx) =>
               SpecReported(ProfilePath \o << K("c_zero_distance_idx") >>, "int_range")
        /\ ~ _check_dependency_distances(start.c_zero_distance_idx, start.distances) =>
               SpecReported(DistancesStrPath, "zero distance index > len(distances)")
        /\ ~ assert_items_count(start.distances, 1, 200) =>
               SpecReported(DistancesPath, "items_count")
        /\ ~ _check_bc_type(start.bc_type) =>
               SpecReported(ProfilePath, "expected one of")
        /\ (_check_bc_type(start.bc_type)
              /\ ~ assert_items_count(start.coef_rows, 1,
                                      IF start.bc_type \in {"G7", "G1"} THEN 5 ELSE 200)) =>
               SpecReported(CoefRowsPath, "items_count")

(***************************************************************************)
(* C24                                                                     *)
(***************************************************************************)
\* the flat list a caller reads from the error a validate call raised
FlatList ==
    IF result.outcome = "ValidationError" THEN ValidationError_errors(result.error) ELSE <<>>

\* C24: after a collect-all run the flat list of violations is the list of
\* the leaves of the violation tree in traversal order: no aggregating
\* parent is in it and every leaf is in it once.
C24_FlatListIsLeaves ==
    (Validated /\ ~ abort_early) => FlatList = ReportedLeaves

(***************************************************************************)
(* C25                                                                     *)
(***************************************************************************)
SwitchesPath == ProfilePath \o << K("switches") >>

\* a violation at switch j or below it
SwitchRejected(j) ==
    \E path \in ViolationPaths : IsPrefix(SwitchesPath \o << I(j - 1) >>, path)

\* c_idx, reticle_idx and zoom within the ranges of both backends
SwitchIndicesInRange(sw) ==
    /\ _check_c_idx(sw.c_idx) /\ _check_reticle_idx(sw.reticle_idx) /\ _check_zoom(sw.zoom)

\* distance within the range distance_from selects
DistanceFits(sw) ==
    \/ sw.distance_from = "VALUE" /\ 100 <= sw.distance /\ sw.distance <= 300000
    \/ sw.distance_from = "INDEX" /\ 0 <= sw.distance /\ sw.distance <= 255

\* C25: a switch whose c_idx, reticle_idx and zoom are in range is accepted
\* iff distance_from is VALUE and 100 <= distance <= 300000, or
\* distance_from is INDEX and 0 <= distance <= 255; INDEX with distance
\* 10000 and VALUE with distance 50 are rejected.
C25_SwitchDiscriminator ==
    (Loaded /\ BackendEnabled) =>
        \A j \in DOMAIN start.switches :
            SwitchIndicesInRange(start.switches[j]) =>
                (SwitchRejected(j) <=> ~ DistanceFits(start.switches[j]))

(***************************************************************************)
(* C26                                                                     *)
(***************************************************************************)
\* the tasks whose thread is executing process_file
Executing == { t \in DOMAIN task : task[t] \in {"running", "abandoned"} }

\* the tasks that hold a permit
Holding == { t \in DOMAIN task : task[t] = "running" }

\* C26: at every moment at most MAX_THREADS process_file invocations are
\* executing, whatever the number of files, and a task that finished, by
\* returning or by raising, holds no permit: the permits taken are exactly
\* those of the tasks inside the block.
C26_BoundedConcurrency ==
    /\ Cardinality(Executing) <= MAX_THREADS
    /\ semaphore = MAX_THREADS - Cardinality(Holding)

\* every permit is taken while a file waits, after a task that raised has
\* given its permit back
C26_Witness ==
    /\ semaphore = 0
    /\ \E t \in DOMAIN task : task[t] = "created"
    /\ \E t \in DOMAIN task : task[t] = "raised"

(***************************************************************************)
(* C27                                                                     *)
(***************************************************************************)
\* what the validate call made does in fail-fast and in collect-all mode
FailFastOutcome == IF abort_early THEN result ELSE validate_any(schema, value, TRUE, <<>>)
CollectAllOutcome == IF abort_early THEN validate_any(schema, value, FALSE, <<>>) ELSE result

\* C27: the violation a fail-fast validation of a nested record returns has
\* the path and the constraint of the first leaf, in traversal order, of
\* the collect-all validation of the same record: the full path of the
\* failing leaf, not the path of an enclosing mapping or sequence.
C27_FailFastIsFirstLeaf ==
    (Validated /\ schema.type \in {"mapping", "array"}
        /\ CollectAllOutcome.outcome = "ValidationError") =>
        /\ FailFastOutcome.outcome = "ValidationError"
        /\ FailFastOutcome.error.errors = <<>>
        /\ FailFastOutcome.error.path = Leaves(CollectAllOutcome.error)[1].path
        /\ FailFastOutcome.error.constraint = Leaves(CollectAllOutcome.error)[1].constraint

(***************************************************************************)
(* C28                                                                     *)
(***************************************************************************)
\* the spec tier has run to its end on the record the load rejected
SpecTierRan == pc = "spec_done"

\* the fields the results of the spec tier name as recovered
FixedKeys ==
    { spec_results[j].path[Len(spec_results[j].path)].k :
        j \in { i \in DOMAIN spec_results : spec_results[i].recovered } }

\* C28: every registered fix modifies only the field named by the path it
\* is registered under and leaves every other field of the record
\* unchanged, so a recovery tier never turns a field that was valid before
\* it ran into an invalid one.
C28_FixesOwnFieldOnly ==
    SpecTierRan =>
        /\ \A key \in DOMAIN payload : payload[key] # start[key] => key \in FixedKeys
        /\ \A key \in DefaultCriteriaKeys :
              _default_validation_funcs(key, start[key])
                  => _default_validation_funcs(key, payload[key])

(***************************************************************************)
(* C29                                                                     *)
(***************************************************************************)
\* the fix registered for the path of the violation the load raised has
\* run: it returned, or it raised and ended the run
FixRan ==
    /\ \/ pc = "spec_done"
       \/ pc = "crashed" /\ validation.raised = "A7PSpecValidationError"
    /\ validation.spec_violations # <<>>
    /\ Registered("spec", validation.spec_violations[1].path)

\* the violations the spec validator reports at path or below it
ViolationsUnder(profile, path) ==
    SelectSeq(validate_spec(profile),
              LAMBDA v : IsPrefix(path, v.path))

\* C29: after the fix registered for a path of the spec-tier registry has
\* run, the field at that path satisfies its own validation rule (range,
\* length limit or choice): an over-long string is a prefix of the original
\* within the limit, an out-of-range c_zero_air_humidity is in range.
C29_FixedFieldIsValid ==
    FixRan =>
        LET path == validation.spec_violations[1].path
            key == path[Len(path)].k
        IN  /\ ViolationsUnder(payload, path) = <<>>
            /\ key \in {"profile_name", "short_name_top", "user_note"} =>
                  /\ Len(payload[key]) <= Len(start[key])
                  /\ payload[key] = SubSeq(start[key], 1, Len(payload[key]))

(***************************************************************************)
(* C30                                                                     *)
(***************************************************************************)
\* the spec tier has applied the fix registered for ~/profile/distances
DistancesFixRan ==
    /\ SpecTierRan
    /\ \E j \in DOMAIN spec_results :
          spec_results[j].recovered /\ spec_results[j].path = DistancesPath

\* C30: for every record whose c_zero_distance_idx passes its own range
\* check, after the distances fix has replaced the distances list with the
\* canned table, 0 <= c_zero_distance_idx < len(distances) holds and the
\* length of the list is within 1..200.
C30_IndexInsideCannedTable ==
    (DistancesFixRan /\ _check_c_zero_distance_idx(start.c_zero_distance_idx)) =>
        /\ payload.distances = LongRangeScaled
        /\ _check_dependency_distances(payload.c_zero_distance_idx, payload.distances)
        /\ assert_items_count(payload.distances, 1, 200)

====
